---- MODULE Spec2Model ----
(***************************************************************************)
(* A model of the constant pool of jbcrs (basic/src/constpool.rs), of its  *)
(* iterator, and of the constant pool reader of the class file parser      *)
(* (src/basic/parser/mod.rs, src/basic/parser/decode.rs).                  *)
(***************************************************************************)
EXTENDS Integers, Sequences, FiniteSets, TLC

VARIABLES
    prefix,     \* by_index[0 .. prefix-1] holds Integer(1) .. Integer(prefix): see Prefilled
    length,     \* Pool.length: u16
    by_index,   \* Pool.by_index: Vec<Option<Rc<Item>>>, the slots after the prefix
    by_entry,   \* Pool.by_entry: HashMap<Rc<Item>, u16>, the entries not of the prefix
    status,     \* "running", or "panicked" once a call has aborted the thread
    build,      \* "debug" (overflow checks on) or "release" (wrapping arithmetic)
    last,       \* the last call made on the pool and what it returned
    log,        \* the successful push calls after Init: <<item, index returned>>
    inserted,   \* the insertions after Init, in order: <<item, index returned>>
    only_push,  \* TRUE while no push_duplicate call has been made
    npush,      \* number of push and push_duplicate calls made after Init
    iter,       \* the live PoolIter, if any: position in by_index, index, calls
    yielded,    \* what the live PoolIter has returned, call by call
    bytes,      \* Decoder.bytes: the input of parse
    cursor,     \* *Decoder.cursor: usize
    limit,      \* Decoder.limit: usize
    pc,         \* where parse is: "idle", "header", "count", "pool", "pool_done", "failed"
    perr,       \* the error parse failed with, as a result value
    size,       \* read_constant_pool: the count read from the input
    loop_index, \* read_constant_pool: `index` of `for index in 1..size`
    tags_read,  \* tagged entries read so far
    wide_read,  \* Long and Double entries read so far
    frames,     \* parse_attributes: the attributes being parsed, innermost last,
                \* each with the limit of the decoder it was limited from
    left,       \* parse_attributes: passes of `for _ in 0..count` still to make
    attrs,      \* the attributes whose remove_limit succeeded, in that order
    chars,      \* the &str given to Encoder::write_str, as code points
    buf,        \* Encoder.buf
    decoded,    \* what Decoder::read_str returned
    desc,       \* the &str given to from_str, as characters
    parsed,     \* what from_str returned
    shown,      \* what formatting the parsed value gave
    class       \* the Class parse has built so far

vars == <<prefix, length, by_index, by_entry, status, build, last, log, inserted,
          only_push, npush, iter, yielded,
          bytes, cursor, limit, pc, perr, size, loop_index, tags_read, wide_read,
          frames, left, attrs, chars, buf, decoded, desc, parsed, shown, class>>

pool_vars == <<prefix, length, by_index, by_entry>>
hist_vars == <<log, inserted, only_push, npush>>
api_vars == <<status, build, last, log, inserted, only_push, npush, iter, yielded>>
parse_vars == <<bytes, cursor, limit, pc, perr, size, loop_index, tags_read, wide_read>>
attr_vars == <<frames, left, attrs>>
codec_vars == <<chars, buf, decoded>>
desc_vars == <<desc, parsed, shown>>
tree_vars == <<class>>

----------------------------------------------------------------------------
(* Bounds of the exploration. *)

\* push and push_duplicate calls explored from each initial pool.
MaxPush == 3

\* PoolIter::next calls explored on one iterator.
MaxNext == 5

\* Free indices left in the nearly full initial pool.
NearFull == 1

----------------------------------------------------------------------------
(* Program constants. *)

\* u16::max_value()
U16Max == 65535

\* The modulus of u16 arithmetic in a build without overflow checks.
U16Mod == U16Max + 1

----------------------------------------------------------------------------
(* Items.  An item is a record [kind, v]; floats carry the fields of their *)
(* IEEE-754 representation, so that to_bits is a computation.              *)

Integer(n) == [kind |-> "Integer", v |-> n]
Long(n)    == [kind |-> "Long", v |-> n]    \* n: the i64 as four 16-bit limbs
Float(s, e, f)  == [kind |-> "Float", v |-> [sign |-> s, exp |-> e, frac |-> f]]
Double(s, e, f) == [kind |-> "Double", v |-> [sign |-> s, exp |-> e, frac |-> f]]

\* f32::to_bits as two 16-bit limbs: 1 sign bit, 8 exponent bits, 23 fraction bits.
F32ToBits(f) == <<f.sign * 32768 + f.exp * 128 + (f.frac \div 65536), f.frac % 65536>>

\* f64::to_bits as four 16-bit limbs: 1 sign bit, 11 exponent bits, 52
\* fraction bits (the fraction is kept as <<4 bits, 16 bits, 16 bits, 16 bits>>).
F64ToBits(d) == <<d.sign * 32768 + d.exp * 16 + d.frac[1], d.frac[2], d.frac[3], d.frac[4]>>

\* Item::is_double
IsDouble(item) == item.kind \in {"Long", "Double"}

\* impl PartialEq for Item
ItemEq(a, b) ==
    IF a.kind # b.kind THEN FALSE
    ELSE CASE a.kind = "Float"  -> F32ToBits(a.v) = F32ToBits(b.v)
           [] a.kind = "Double" -> F64ToBits(a.v) = F64ToBits(b.v)
           [] OTHER             -> a.v = b.v

\* Option<Rc<Item>>
Some(item) == [some |-> TRUE, item |-> item]
None       == [some |-> FALSE, item |-> Integer(0)]

\* Result<u16>, Result<&Item> and Option<(u16, &Item)> values, and a panic.
NoItem           == [kind |-> "None", v |-> 0]
Res(k, i, it, e, a) == [kind |-> k, index |-> i, item |-> it, err |-> e, arg |-> a]
OkIndex(i)       == Res("Ok", i, NoItem, "", 0)
OkItem(it)       == Res("Ok", 0, it, "", 0)
CPTooLarge       == Res("Err", 0, NoItem, "CPTooLarge", 0)
InvalidCPItem(i) == Res("Err", 0, NoItem, "InvalidCPItem", i)
Panic            == Res("Panic", 0, NoItem, "", 0)
NoResult         == Res("None", 0, NoItem, "", 0)
Yield(i, it)     == Res("Some", i, it, "", 0)

----------------------------------------------------------------------------
(* The items the calls are made with: Integer(123) is in the prefilled     *)
(* pool and not in the fresh one; the floats are +0.0 and -0.0.          *)

PosZero == Float(0, 0, 0)
NegZero == Float(1, 0, 0)
Items == {Integer(123), Long(<<0, 0, 0, 32767>>), PosZero, NegZero, Double(0, 1023, <<0, 0, 0, 0>>)}

----------------------------------------------------------------------------
(* Pool.  The vector and the map are kept in two parts: a prefix of        *)
(* `prefix` slots that hold Integer(1) .. Integer(prefix) with the entries *)
(* Integer(k) -> k, and the slots and entries added or changed after it.   *)

\* by_index.len()
NumSlots == prefix + Len(by_index)

\* by_index[i - 1], for i in 1 .. NumSlots
Slot(i) == IF i <= prefix THEN Some(Integer(i)) ELSE by_index[i - prefix]

\* The entries of the prefix that no later insert has overwritten.
PrefixEntry(item) == item.kind = "Integer" /\ item.v \in 1 .. prefix

\* HashMap lookup by Hash + Eq.
HasEntry(item) == (\E k \in DOMAIN by_entry : ItemEq(k, item)) \/ PrefixEntry(item)
Entry(item) ==
    IF \E k \in DOMAIN by_entry : ItemEq(k, item)
    THEN by_entry[CHOOSE k \in DOMAIN by_entry : ItemEq(k, item)]
    ELSE item.v

\* HashMap::insert: an equal key keeps the stored key and takes the new value.
MapInsert(m, item, idx) ==
    IF \E k \in DOMAIN m : ItemEq(k, item)
    THEN [m EXCEPT ![CHOOSE k \in DOMAIN m : ItemEq(k, item)] = idx]
    ELSE [k \in DOMAIN m \cup {item} |-> IF k = item THEN idx ELSE m[k]]

\* The number of the slots, not of the indices.
PoolLenSlots == length - 1

\* Pool::len
PoolLen == length

\* Pool::is_empty
IsEmpty == PoolLen = 1

\* The slots an insertion appends to by_index.
Slots(item) == IF IsDouble(item) THEN <<Some(item), None>> ELSE <<Some(item)>>

\* The number of indices an insertion takes.
Width(item) == IF IsDouble(item) THEN 2 ELSE 1

\* Pool::get as a function of the pool: the bounds check, then the slot.
GetOp(index) ==
    IF index # 0 /\ index <= PoolLen
    THEN IF index > NumSlots
         THEN Panic    \* by_index[index as usize - 1] is out of bounds
         ELSE IF Slot(index).some THEN OkItem(Slot(index).item)
              ELSE InvalidCPItem(index)
    ELSE InvalidCPItem(index)

\* An item equal to `item` is in an occupied slot.
Present(item) ==
    \/ PrefixEntry(item)
    \/ \E i \in 1 .. Len(by_index) : by_index[i].some /\ ItemEq(by_index[i].item, item)

Call(op, item, index, res) ==
    [op |-> op, item |-> item, index |-> index, res |-> res,
     len_before |-> length, present_before |-> Present(item)]

\* `*length += n` on a u16: a panic with overflow checks, wrapping without.
Overflows(n) == length + n > U16Max /\ build = "debug"

\* Pool::push with the capacity check made only when the item has to be
\* appended: a lookup that runs before the check.
PushLookupFirst(item) ==
    /\ status = "running" /\ ~iter.live
    /\ npush < MaxPush
    /\ npush' = npush + 1
    /\ UNCHANGED <<prefix, build, only_push, iter, yielded, parse_vars, attr_vars, codec_vars, desc_vars, tree_vars>>
    /\ IF HasEntry(item)
       THEN /\ last' = Call("push", item, 0, OkIndex(Entry(item)))
            /\ log' = log \cup {<<item, Entry(item)>>}
            /\ UNCHANGED <<length, by_index, by_entry, status, inserted>>
       ELSE IF PoolLen = U16Max
       THEN /\ last' = Call("push", item, 0, CPTooLarge)
            /\ UNCHANGED <<length, by_index, by_entry, status, log, inserted>>
       ELSE /\ by_index' = by_index \o Slots(item)
            /\ IF Overflows(Width(item))
               THEN /\ status' = "panicked"
                    /\ last' = Call("push", item, 0, Panic)
                    /\ UNCHANGED <<length, by_entry, log, inserted>>
               ELSE /\ length' = (length + Width(item)) % U16Mod
                    /\ by_entry' = MapInsert(by_entry, item, length)
                    /\ last' = Call("push", item, 0, OkIndex(length))
                    /\ log' = log \cup {<<item, length>>}
                    /\ inserted' = Append(inserted, <<item, length>>)
                    /\ UNCHANGED status

\* Pool::push
Push(item) ==
    /\ status = "running" /\ ~iter.live
    /\ npush < MaxPush
    /\ npush' = npush + 1
    /\ UNCHANGED <<prefix, build, only_push, iter, yielded, parse_vars, attr_vars, codec_vars, desc_vars, tree_vars>>
    /\ IF PoolLen = U16Max
       THEN /\ last' = Call("push", item, 0, CPTooLarge)
            /\ UNCHANGED <<length, by_index, by_entry, status, log, inserted>>
       ELSE IF HasEntry(item)
       THEN \* entry(rc_item): occupied, the closure does not run
            /\ last' = Call("push", item, 0, OkIndex(Entry(item)))
            /\ log' = log \cup {<<item, Entry(item)>>}
            /\ UNCHANGED <<length, by_index, by_entry, status, inserted>>
       ELSE /\ by_index' = by_index \o Slots(item)
            /\ IF Overflows(Width(item))
               THEN /\ status' = "panicked"
                    /\ last' = Call("push", item, 0, Panic)
                    /\ UNCHANGED <<length, by_entry, log, inserted>>
               ELSE /\ length' = (length + Width(item)) % U16Mod
                    /\ by_entry' = MapInsert(by_entry, item, length)
                    /\ last' = Call("push", item, 0, OkIndex(length))
                    /\ log' = log \cup {<<item, length>>}
                    /\ inserted' = Append(inserted, <<item, length>>)
                    /\ UNCHANGED status

\* Pool::push_duplicate
PushDuplicate(item) ==
    /\ status = "running" /\ ~iter.live
    /\ npush < MaxPush
    /\ npush' = npush + 1
    /\ UNCHANGED <<prefix, build, log, iter, yielded, parse_vars, attr_vars, codec_vars, desc_vars, tree_vars>>
    /\ only_push' = FALSE
    /\ IF PoolLen = U16Max
       THEN /\ last' = Call("push_duplicate", item, 0, CPTooLarge)
            /\ UNCHANGED <<length, by_index, by_entry, status, inserted>>
       ELSE /\ by_index' = by_index \o Slots(item)
            /\ IF Overflows(Width(item))
               THEN /\ status' = "panicked"
                    /\ last' = Call("push_duplicate", item, 0, Panic)
                    /\ UNCHANGED <<length, by_entry, inserted>>
               ELSE /\ length' = (length + Width(item)) % U16Mod
                    /\ by_entry' = MapInsert(by_entry, item, length)
                    /\ last' = Call("push_duplicate", item, 0, OkIndex(length))
                    /\ inserted' = Append(inserted, <<item, length>>)
                    /\ UNCHANGED status

\* The indices get is called with: the ends of the u16 range and the
\* indices around the next free one.
GetIndices == {0, 1, 2, 3, U16Max} \cup ({length - 1, length, length + 1} \cap (0 .. U16Max))

\* Pool::get
Get(index) ==
    /\ status = "running"
    /\ last' = Call("get", NoItem, index, GetOp(index))
    /\ status' = IF GetOp(index) = Panic THEN "panicked" ELSE status
    /\ UNCHANGED <<pool_vars, hist_vars, build, iter, yielded, parse_vars, attr_vars, codec_vars, desc_vars, tree_vars>>

----------------------------------------------------------------------------
(* PoolIter *)

\* Option<(u16, &Item)>::None
IterEnd == Res("None", 0, NoItem, "", 0)

\* PoolIter::next from position pos of by_index.iter() and index `index`:
\* the new position and index, and what the call returns.
RECURSIVE IterStep(_, _)
IterStep(pos, index) ==
    IF index = U16Max /\ build = "debug"
    THEN [pos |-> pos, index |-> index, out |-> Panic]    \* self.index += 1 overflows
    ELSE IF pos < NumSlots
         THEN IF Slot(pos + 1).some
              THEN [pos |-> pos + 1, index |-> (index + 1) % U16Mod,
                    out |-> Yield((index + 1) % U16Mod, Slot(pos + 1).item)]
              ELSE IterStep(pos + 1, (index + 1) % U16Mod)    \* self.next()
         ELSE [pos |-> pos, index |-> (index + 1) % U16Mod, out |-> IterEnd]

\* Pool::iter: the iterator borrows the pool, so no push runs while it lives.
Iter ==
    /\ status = "running" /\ ~iter.live
    /\ iter' = [live |-> TRUE, pos |-> 0, index |-> 0, calls |-> 0]
    /\ yielded' = <<>>
    /\ last' = Call("iter", NoItem, 0, NoResult)
    /\ UNCHANGED <<pool_vars, hist_vars, status, build, parse_vars, attr_vars, codec_vars, desc_vars, tree_vars>>

\* PoolIter::next
IterNext ==
    /\ status = "running" /\ iter.live
    /\ iter.calls < MaxNext
    /\ iter' = [live |-> TRUE, pos |-> IterStep(iter.pos, iter.index).pos,
                index |-> IterStep(iter.pos, iter.index).index, calls |-> iter.calls + 1]
    /\ yielded' = Append(yielded, IterStep(iter.pos, iter.index).out)
    /\ last' = Call("next", NoItem, 0, IterStep(iter.pos, iter.index).out)
    /\ status' = IF IterStep(iter.pos, iter.index).out = Panic THEN "panicked" ELSE status
    /\ UNCHANGED <<pool_vars, hist_vars, build, parse_vars, attr_vars, codec_vars, desc_vars, tree_vars>>

\* The iterator is dropped.
IterDrop ==
    /\ status = "running" /\ iter.live
    /\ iter' = [live |-> FALSE, pos |-> 0, index |-> 0, calls |-> 0]
    /\ yielded' = <<>>
    /\ last' = Call("drop", NoItem, 0, NoResult)
    /\ UNCHANGED <<pool_vars, hist_vars, status, build, parse_vars, attr_vars, codec_vars, desc_vars, tree_vars>>

----------------------------------------------------------------------------
(* Decoder: a byte slice, a shared cursor and a limit.  A usize is kept as *)
(* the integer it holds; the bytes are 0 .. 255.                           *)

\* Error values of the parser.
LimitExceeded == Res("Err", 0, NoItem, "LimitExceeded", 0)
NotAClass     == Res("Err", 0, NoItem, "NotAClass", 0)
InvalidUTF8   == Res("Err", 0, NoItem, "InvalidUTF8", 0)

\* Decoder::check
Check(location) == location <= limit

\* The bytes read_bytes(count) borrows at cursor position cur.
BytesAt(cur, count) == [k \in 1 .. count |-> bytes[cur + k]]

\* BigEndian::read_u16
U16FromBytes(b) == b[1] * 256 + b[2]

\* BigEndian::read_u32 as i32
I32FromBytes(b) ==
    (IF b[1] >= 128 THEN b[1] - 256 ELSE b[1]) * 16777216 + b[2] * 65536 + b[3] * 256 + b[4]

\* BigEndian::read_u64 as i64, as four 16-bit limbs
I64FromBytes(b) ==
    <<b[1] * 256 + b[2], b[3] * 256 + b[4], b[5] * 256 + b[6], b[7] * 256 + b[8]>>

\* BigEndian::read_f32: the fields of the bit pattern
F32FromBytes(b) ==
    [sign |-> b[1] \div 128,
     exp  |-> (b[1] % 128) * 2 + (b[2] \div 128),
     frac |-> (b[2] % 128) * 65536 + b[3] * 256 + b[4]]

\* BigEndian::read_f64: the fields of the bit pattern
F64FromBytes(b) ==
    [sign |-> b[1] \div 128,
     exp  |-> (b[1] % 128) * 16 + (b[2] \div 16),
     frac |-> <<b[2] % 16, b[3] * 256 + b[4], b[5] * 256 + b[6], b[7] * 256 + b[8]>>]

\* char::from_u32: a scalar value is no surrogate and at most 0x10FFFF.
IsChar(ch) == ch >= 0 /\ ch <= 1114111 /\ ~(ch >= 55296 /\ ch <= 57343)

\* The result of a read that moved the cursor to cur.
Read(cur, val) == [ok |-> TRUE, cursor |-> cur, val |-> val, err |-> NoResult]
Fail(cur, err) == [ok |-> FALSE, cursor |-> cur, val |-> 0, err |-> err]

\* `i -= n` on a usize: a panic with overflow checks; without, the value
\* wraps, and is kept as its negative representative modulo 2^64.
Underflows(i, n) == i >= 0 /\ i - n < 0 /\ build = "debug"

\* `i >= n` and `i > 0` on a usize kept that way.
UGe(i, n) == i < 0 \/ i >= n

\* Decoder::read_str: the loop from cursor position cur with i bytes left
\* to decode and the characters out decoded so far.
RECURSIVE ReadStrLoop(_, _, _)
ReadStrLoop(cur, i, out) ==
    IF i = 0 THEN Read(cur, out)
    ELSE IF ~Check(cur + 1) THEN Fail(cur, LimitExceeded)
    ELSE LET r1 == bytes[cur + 1] IN
    IF r1 # 0 /\ r1 < 128
    THEN ReadStrLoop(cur + 1, i - 1, Append(out, r1))
    ELSE IF r1 >= 192 /\ r1 < 224 /\ UGe(i, 1)
    THEN IF Underflows(i, 2) THEN Fail(cur + 1, Panic)
         ELSE IF ~Check(cur + 2) THEN Fail(cur + 1, LimitExceeded)
         ELSE LET ch == (r1 % 32) * 64 + (bytes[cur + 2] % 64) IN
              IF IsChar(ch) THEN ReadStrLoop(cur + 2, i - 2, Append(out, ch))
              ELSE Fail(cur + 2, InvalidUTF8)
    ELSE IF r1 >= 224 /\ r1 < 240 /\ UGe(i, 3)
    THEN IF ~Check(cur + 2) THEN Fail(cur + 1, LimitExceeded)
         ELSE IF ~Check(cur + 3) THEN Fail(cur + 2, LimitExceeded)
         ELSE LET r2 == bytes[cur + 2]
                  r3 == bytes[cur + 3]
              IN
              IF r1 = 237 /\ r2 >= 160 /\ r2 <= 175
              THEN IF UGe(i - 3, 6)
                   THEN IF ~Check(cur + 4) THEN Fail(cur + 3, LimitExceeded)
                        ELSE IF ~Check(cur + 5) THEN Fail(cur + 4, LimitExceeded)
                        ELSE IF ~Check(cur + 6) THEN Fail(cur + 5, LimitExceeded)
                        ELSE LET ch == 65536 + (r2 % 16) * 65536 + (r3 % 64) * 1024
                                       + (bytes[cur + 5] % 16) * 64 + (bytes[cur + 6] % 64)
                             IN
                             IF IsChar(ch)
                             THEN ReadStrLoop(cur + 6, i - 9, Append(out, ch))
                             ELSE Fail(cur + 6, InvalidUTF8)
                   ELSE Fail(cur + 3, InvalidUTF8)
              ELSE LET ch == (r1 % 16) * 4096 + (r2 % 64) * 64 + (r3 % 64) IN
                   IF IsChar(ch) THEN ReadStrLoop(cur + 3, i - 3, Append(out, ch))
                   ELSE Fail(cur + 3, InvalidUTF8)
    ELSE Fail(cur + 1, InvalidUTF8)

\* Decoder::read_str
ReadStr(cur, len) == ReadStrLoop(cur, len, <<>>)

----------------------------------------------------------------------------
(* parse and read_constant_pool *)

\* MAGIC
MAGIC == <<202, 254, 186, 190>>

UTF8(str) == [kind |-> "UTF8", v |-> str]    \* str: the characters as code points
Ref(kind, n) == [kind |-> kind, v |-> n]
Ref2(kind, a, b) == [kind |-> kind, v |-> <<a, b>>]

\* ReferenceKind of a MethodHandle
ReferenceKind(k) ==
    <<"GetField", "GetStatic", "PutField", "PutStatic", "InvokeVirtual",
      "InvokeStatic", "InvokeSpecial", "NewInvokeSpecial", "InvokeInterface">>[k]

\* The number of bytes a tag's fixed fields take (0: no such tag).
FieldBytes(tag) ==
    CASE tag \in {3, 4} -> 4
      [] tag \in {5, 6} -> 8
      [] tag \in {7, 8, 16, 19, 20} -> 2
      [] tag \in {9, 10, 11, 12, 18} -> 4
      [] tag = 15 -> 3
      [] OTHER -> 0

\* The item of a tag with fixed fields b.
FixedItem(tag, b) ==
    CASE tag = 3 -> Integer(I32FromBytes(b))
      [] tag = 4 -> [kind |-> "Float", v |-> F32FromBytes(b)]
      [] tag = 5 -> Long(I64FromBytes(b))
      [] tag = 6 -> [kind |-> "Double", v |-> F64FromBytes(b)]
      [] tag = 7 -> Ref("Class", U16FromBytes(b))
      [] tag = 8 -> Ref("String", U16FromBytes(b))
      [] tag = 9 -> Ref2("FieldRef", U16FromBytes(b), U16FromBytes(<<b[3], b[4]>>))
      [] tag = 10 -> Ref2("MethodRef", U16FromBytes(b), U16FromBytes(<<b[3], b[4]>>))
      [] tag = 11 -> Ref2("InterfaceMethodRef", U16FromBytes(b), U16FromBytes(<<b[3], b[4]>>))
      [] tag = 12 -> Ref2("NameAndType", U16FromBytes(b), U16FromBytes(<<b[3], b[4]>>))
      [] tag = 15 -> Ref2("MethodHandle", ReferenceKind(b[1]), U16FromBytes(<<b[2], b[3]>>))
      [] tag = 16 -> Ref("MethodType", U16FromBytes(b))
      [] tag = 18 -> Ref2("InvokeDynamic", U16FromBytes(b), U16FromBytes(<<b[3], b[4]>>))
      [] tag = 19 -> Ref("Module", U16FromBytes(b))
      [] tag = 20 -> Ref("Package", U16FromBytes(b))

\* The first read among the consecutive reads of `sizes` bytes from cur
\* that the limit stops: where the cursor is left, or -1 when all succeed.
RECURSIVE StopsAt(_, _)
StopsAt(cur, sizes) ==
    IF sizes = <<>> THEN -1
    ELSE IF ~Check(cur + Head(sizes)) THEN cur
    ELSE StopsAt(cur + Head(sizes), Tail(sizes))

\* The reads a tag's fixed fields are made of.
FieldReads(tag) ==
    CASE tag \in {3, 4} -> <<4>>
      [] tag \in {5, 6} -> <<8>>
      [] tag \in {7, 8, 16, 19, 20} -> <<2>>
      [] tag \in {9, 10, 11, 12, 18} -> <<2, 2>>
      [] tag = 15 -> <<1, 2>>
      [] OTHER -> <<>>

\* One pass of the loop body up to the item: the tag, then its fields.
ReadEntry(cur, idx) ==
    IF ~Check(cur + 1) THEN Fail(cur, LimitExceeded)
    ELSE LET tag == bytes[cur + 1] IN
    IF tag = 1
    THEN IF ~Check(cur + 3) THEN Fail(cur + 1, LimitExceeded)
         ELSE LET str == ReadStr(cur + 3, U16FromBytes(BytesAt(cur + 1, 2))) IN
              IF str.ok THEN Read(str.cursor, UTF8(str.val)) ELSE str
    ELSE IF FieldBytes(tag) = 0 THEN Fail(cur + 1, InvalidCPItem(idx))
    ELSE IF tag = 15 /\ Check(cur + 2) /\ bytes[cur + 2] \notin 1 .. 9
    THEN Fail(cur + 2, InvalidCPItem(idx))
    ELSE IF StopsAt(cur + 1, FieldReads(tag)) # -1
    THEN Fail(StopsAt(cur + 1, FieldReads(tag)), LimitExceeded)
    ELSE Read(cur + 1 + FieldBytes(tag), FixedItem(tag, BytesAt(cur + 1, FieldBytes(tag))))

\* Pool::push_with_dup(Option<Item>), of which only the calls are in the
\* sources: append one slot, as push_duplicate does for each of its slots.
PushWithDup(len, bi, slot) ==
    IF len = U16Max THEN [ok |-> FALSE, length |-> len, by_index |-> bi]
    ELSE [ok |-> TRUE, length |-> len + 1, by_index |-> Append(bi, slot)]

\* parse, up to the constant pool: the magic and the version.
ParseHeader ==
    /\ pc = "header"
    /\ IF ~Check(cursor + 4)
       THEN pc' = "failed" /\ perr' = LimitExceeded /\ UNCHANGED cursor
       ELSE IF BytesAt(cursor, 4) # MAGIC
       THEN pc' = "failed" /\ perr' = NotAClass /\ cursor' = cursor + 4
       ELSE IF StopsAt(cursor + 4, <<2, 2>>) # -1
       THEN pc' = "failed" /\ perr' = LimitExceeded
            /\ cursor' = StopsAt(cursor + 4, <<2, 2>>)
       ELSE pc' = "count" /\ cursor' = cursor + 8 /\ UNCHANGED perr
    /\ UNCHANGED <<pool_vars, api_vars, bytes, limit, size, loop_index, tags_read, wide_read,
                   attr_vars, codec_vars, desc_vars, tree_vars>>

\* read_constant_pool: the count, and Pool::with_capacity(size).
ReadPoolCount ==
    /\ pc = "count"
    /\ IF ~Check(cursor + 2)
       THEN pc' = "failed" /\ perr' = LimitExceeded /\ UNCHANGED <<cursor, size, loop_index>>
       ELSE /\ pc' = "pool"
            /\ size' = U16FromBytes(BytesAt(cursor, 2))
            /\ cursor' = cursor + 2
            /\ loop_index' = 1
            /\ UNCHANGED perr
    /\ UNCHANGED <<pool_vars, api_vars, bytes, limit, tags_read, wide_read,
                   attr_vars, codec_vars, desc_vars, tree_vars>>

\* read_constant_pool: one pass of `for index in 1..size`.
ReadPoolEntry ==
    /\ pc = "pool" /\ loop_index < size
    /\ LET e == ReadEntry(cursor, loop_index)
           p1 == PushWithDup(length, by_index, Some(e.val))
           p2 == PushWithDup(p1.length, p1.by_index, None)
       IN
       /\ cursor' = e.cursor
       /\ IF ~e.ok
          THEN /\ pc' = "failed" /\ perr' = e.err
               /\ UNCHANGED <<length, by_index, by_entry, loop_index, tags_read, wide_read>>
          ELSE /\ tags_read' = tags_read + 1
               /\ wide_read' = wide_read + (IF IsDouble(e.val) THEN 1 ELSE 0)
               /\ IF ~p1.ok
                  THEN /\ pc' = "failed" /\ perr' = CPTooLarge
                       /\ UNCHANGED <<length, by_index, by_entry, loop_index>>
                  ELSE IF IsDouble(e.val) /\ ~p2.ok
                  THEN /\ pc' = "failed" /\ perr' = CPTooLarge
                       /\ length' = p1.length /\ by_index' = p1.by_index
                       /\ by_entry' = MapInsert(by_entry, e.val, length)
                       /\ UNCHANGED loop_index
                  ELSE /\ length' = IF IsDouble(e.val) THEN p2.length ELSE p1.length
                       /\ by_index' = IF IsDouble(e.val) THEN p2.by_index ELSE p1.by_index
                       /\ by_entry' = MapInsert(by_entry, e.val, length)
                       /\ loop_index' = loop_index + 1
                       /\ UNCHANGED <<pc, perr>>
    /\ UNCHANGED <<prefix, api_vars, bytes, limit, size,
                   attr_vars, codec_vars, desc_vars, tree_vars>>

\* read_constant_pool: the range is exhausted, Ok(pool).
PoolDone ==
    /\ pc = "pool" /\ loop_index >= size
    /\ pc' = "pool_done"
    /\ UNCHANGED <<pool_vars, api_vars, bytes, cursor, limit, perr, size, loop_index,
                   tags_read, wide_read,
                   attr_vars, codec_vars, desc_vars, tree_vars>>

----------------------------------------------------------------------------
(* parse_attributes and parse_code.  Decoder::limit gives a decoder that   *)
(* shares the cursor and has its own limit: `limit` is the limit of the    *)
(* decoder in use, and the frame of each limited decoder keeps the limit   *)
(* of the decoder it was made from.                                        *)

\* BigEndian::read_u32, as two 16-bit limbs
U32FromBytes(b) == <<b[1] * 256 + b[2], b[3] * 256 + b[4]>>

\* Decoder::limit without `self.check(end)?`.
LimitFitsUnchecked(cur, to) == to[1] = 0

\* The check of `*self.cursor + to` in Decoder::limit for a u32 `to`: the
\* buffers are shorter than 2^16 bytes, so a high limb above 0 is past
\* every limit (usize has 64 bits: the sum of a cursor and a u32 does not
\* wrap).
LimitFits(cur, to) == to[1] = 0 /\ Check(cur + to[2])

\* The str literals parse_attributes matches the name against, each under
\* the name of the variant of Attribute its arm makes.
AttributeName ==
    [Code |-> <<67, 111, 100, 101>>,
     EnclosingMethod |-> <<69, 110, 99, 108, 111, 115, 105, 110, 103,
                           77, 101, 116, 104, 111, 100, 115>>,
     ConstantValue |-> <<67, 111, 110, 115, 116, 97, 110, 116, 86, 97, 108, 117, 101>>,
     Deprecated |-> <<68, 101, 112, 114, 101, 99, 97, 116, 101, 100>>,
     Exceptions |-> <<69, 120, 99, 101, 112, 116, 105, 111, 110, 115>>,
     SourceDebugExtension |-> <<83, 111, 117, 114, 99, 101, 68, 101, 98, 117, 103, 69,
                                120, 116, 101, 110, 115, 105, 111, 110>>,
     SourceFile |-> <<83, 111, 117, 114, 99, 101, 70, 105, 108, 101>>,
     Synthetic |-> <<83, 121, 110, 116, 104, 101, 116, 105, 99>>,
     Signature |-> <<83, 105, 103, 110, 97, 116, 117, 114, 101>>,
     ModuleMainClass |-> <<77, 111, 100, 117, 108, 101, 77, 97, 105, 110, 67, 108, 97,
                           115, 115>>]

\* Pool::get_utf8
GetUtf8(index) ==
    IF GetOp(index).kind = "Ok" /\ GetOp(index).item.kind # "UTF8"
    THEN InvalidCPItem(index)
    ELSE GetOp(index)

\* Error::InvalidInstruction { op_code, at }
InvalidInstruction(op_code, at) == Res("Err", at, NoItem, "InvalidInstruction", op_code)

\* The decoder of the innermost attribute or code array being parsed.
Top == frames[Len(frames)]
Frame(kind, name, name_index, start, len) ==
    [kind |-> kind, limit |-> limit, left |-> left, name |-> name,
     name_index |-> name_index, start |-> start, length |-> len, at |-> 0,
     instructions |-> <<>>]

\* The arms of parse_attributes that read a table of u16 after its u16 count.
U16Table(cur) ==
    IF ~Check(cur + 2) THEN Fail(cur, LimitExceeded)
    ELSE LET count == U16FromBytes(BytesAt(cur, 2))
             stop == StopsAt(cur + 2, [k \in 1 .. count |-> 2])
         IN IF stop # -1 THEN Fail(stop, LimitExceeded)
            ELSE Read(cur + 2 + 2 * count, count)

\* The arm of the match in parse_attributes that a name takes: the variant
\* it makes (of the names above; every other name takes the last arm).
Arm(name) ==
    IF \E v \in DOMAIN AttributeName : AttributeName[v] = name
    THEN CHOOSE v \in DOMAIN AttributeName : AttributeName[v] = name
    ELSE "Unknown"

\* The arms of the match in parse_attributes other than "Code".
AttributeBody(name, cur, len) ==
    CASE Arm(name) \in {"ConstantValue", "SourceFile", "Signature", "ModuleMainClass"} ->
             IF ~Check(cur + 2) THEN Fail(cur, LimitExceeded)
             ELSE Read(cur + 2, U16FromBytes(BytesAt(cur, 2)))
      [] Arm(name) \in {"Deprecated", "Synthetic"} -> Read(cur, 0)
      [] Arm(name) = "EnclosingMethod" ->
             IF StopsAt(cur, <<2, 2>>) # -1 THEN Fail(StopsAt(cur, <<2, 2>>), LimitExceeded)
             ELSE Read(cur + 4, <<U16FromBytes(BytesAt(cur, 2)),
                                  U16FromBytes(BytesAt(cur + 2, 2))>>)
      [] Arm(name) = "Exceptions" -> U16Table(cur)
      [] Arm(name) = "SourceDebugExtension" -> ReadStr(cur, len)
      [] OTHER ->
             IF ~Check(cur + len) THEN Fail(cur, LimitExceeded)
             ELSE Read(cur + len, BytesAt(cur, len))

\* parse_attributes: the count.
ReadAttributeCount ==
    /\ pc = "attrs_count"
    /\ IF ~Check(cursor + 2)
       THEN pc' = "failed" /\ perr' = LimitExceeded /\ UNCHANGED <<cursor, left>>
       ELSE /\ pc' = "attrs"
            /\ left' = U16FromBytes(BytesAt(cursor, 2))
            /\ cursor' = cursor + 2
            /\ UNCHANGED perr
    /\ UNCHANGED <<pool_vars, api_vars, bytes, limit, size, loop_index, tags_read,
                   wide_read, frames, attrs, codec_vars, desc_vars, tree_vars>>

\* parse_attributes: a pass of the loop up to `decoder.limit(length as usize)?`.
LimitAttribute ==
    /\ pc = "attrs" /\ left > 0
    /\ IF ~Check(cursor + 2)
       THEN pc' = "failed" /\ perr' = LimitExceeded /\ UNCHANGED <<cursor, limit, frames>>
       ELSE LET name_index == U16FromBytes(BytesAt(cursor, 2))
                name == GetUtf8(name_index)
            IN
            IF name.kind # "Ok"
            THEN /\ pc' = "failed" /\ perr' = name /\ cursor' = cursor + 2
                 /\ UNCHANGED <<limit, frames>>
            ELSE IF ~Check(cursor + 6)
            THEN /\ pc' = "failed" /\ perr' = LimitExceeded /\ cursor' = cursor + 2
                 /\ UNCHANGED <<limit, frames>>
            ELSE LET len == U32FromBytes(BytesAt(cursor + 2, 4)) IN
                 /\ cursor' = cursor + 6
                 /\ IF ~LimitFits(cursor + 6, len)
                    THEN pc' = "failed" /\ perr' = LimitExceeded /\ UNCHANGED <<limit, frames>>
                    ELSE /\ pc' = "body"
                         /\ limit' = cursor + 6 + len[2]
                         /\ frames' = Append(frames, Frame("attr", name.item.v, name_index,
                                                           cursor + 6, len[2]))
                         /\ UNCHANGED perr
    /\ UNCHANGED <<pool_vars, api_vars, bytes, size, loop_index, tags_read, wide_read,
                   left, attrs, codec_vars, desc_vars, tree_vars>>

\* parse_attributes: the arm of the match, for a name other than "Code".
ParseBody ==
    /\ pc = "body" /\ Top.name # AttributeName.Code
    /\ LET r == AttributeBody(Top.name, cursor, Top.length) IN
       /\ cursor' = r.cursor
       /\ IF r.ok THEN pc' = "remove" /\ UNCHANGED perr
          ELSE pc' = "failed" /\ perr' = r.err
    /\ UNCHANGED <<pool_vars, api_vars, bytes, limit, size, loop_index, tags_read,
                   wide_read, attr_vars, codec_vars, desc_vars, tree_vars>>

\* parse_code, up to `decoder.limit(code_length as usize)?`.
LimitCode ==
    /\ pc = "body" /\ Top.name = AttributeName.Code
    /\ IF StopsAt(cursor, <<2, 2, 4>>) # -1
       THEN /\ pc' = "failed" /\ perr' = LimitExceeded
            /\ cursor' = StopsAt(cursor, <<2, 2, 4>>)
            /\ UNCHANGED <<limit, frames>>
       ELSE LET code_length == U32FromBytes(BytesAt(cursor + 4, 4)) IN
            /\ cursor' = cursor + 8
            /\ IF ~LimitFits(cursor + 8, code_length)
               THEN pc' = "failed" /\ perr' = LimitExceeded /\ UNCHANGED <<limit, frames>>
               ELSE /\ pc' = "code"
                    /\ limit' = cursor + 8 + code_length[2]
                    /\ frames' = Append(frames, Frame("code", <<>>, 0, cursor + 8,
                                                      code_length[2]))
                    /\ UNCHANGED perr
    /\ UNCHANGED <<pool_vars, api_vars, bytes, size, loop_index, tags_read, wide_read,
                   left, attrs, codec_vars, desc_vars, tree_vars>>

\* The greatest and the least i32.
I32Max == 2147483647
I32Min == (-I32Max) - 1

\* `a - b` on i32: whether it overflows, and the value two's complement
\* arithmetic gives it.
SubOverflows(a, b) == IF b >= 0 THEN a < I32Min + b ELSE a > I32Max + b
WrappingSub(a, b) ==
    IF ~SubOverflows(a, b) THEN a - b
    ELSE IF b >= 0 THEN (((a - I32Min) - b) + I32Max) + 1
    ELSE ((a + I32Min) - b) + I32Min

\* `a + 1` on i32, wrapped.
WrappingInc(a) == IF a = I32Max THEN I32Min ELSE a + 1

\* read_i8 and read_i16
I8FromByte(b) == IF b >= 128 THEN b - 256 ELSE b
I16FromBytes(b) == IF b[1] >= 128 THEN U16FromBytes(b) - 65536 ELSE U16FromBytes(b)

\* A node of the Instruction enum.
Insn(variant, args) == [variant |-> variant, args |-> args]

\* What parse_instruction returns: the end of the instruction and its node.
Parsed(end, insn) == [end |-> end, insn |-> insn]

\* The arms of parse_instruction that read a local variable index.
Narrow ==
    (21 :> "ILoad" @@ 22 :> "LLoad" @@ 23 :> "FLoad" @@ 24 :> "DLoad" @@ 25 :> "ALoad"
       @@ 54 :> "IStore" @@ 55 :> "LStore" @@ 56 :> "FStore" @@ 57 :> "DStore"
       @@ 58 :> "AStore" @@ 132 :> "IInc" @@ 169 :> "Ret")

\* The arms of the match on the op code that follows 0xC4.
Wide ==
    (21 :> "ILoad" @@ 22 :> "LLoad" @@ 23 :> "FLoad" @@ 24 :> "DLoad" @@ 25 :> "ALoad"
       @@ 54 :> "IStore" @@ 55 :> "LStore" @@ 56 :> "FStore" @@ 57 :> "DStore"
       @@ 64 :> "AStore" @@ 132 :> "IInc" @@ 169 :> "Ret")

\* The reads and skips parse_instruction makes after the op code, for the
\* op codes whose operands have a fixed size.
OperandReads(op_code) ==
    CASE op_code \in (0 .. 15) \cup (26 .. 53) \cup (59 .. 131) \cup (133 .. 152)
             \cup (172 .. 177) \cup {190, 191, 194, 195, 202, 254, 255} -> <<>>
      [] op_code \in {16, 18, 169, 188} \cup (21 .. 25) \cup (54 .. 58) -> <<1>>
      [] op_code \in {17, 19, 20, 187, 189, 192, 193, 198, 199} \cup (153 .. 168)
             \cup (178 .. 184) -> <<2>>
      [] op_code \in {200, 201} -> <<4>>
      [] op_code = 132 -> <<1, 1>>
      [] op_code = 185 -> <<2, 1, 1>>
      [] op_code = 186 -> <<2, 2>>
      [] op_code = 197 -> <<2, 1>>

RECURSIVE Sum(_)
Sum(sizes) == IF sizes = <<>> THEN 0 ELSE Head(sizes) + Sum(Tail(sizes))

\* The node of an instruction with operands of a fixed size, the op code
\* read at cur: the variant and its fields for the arms of Narrow, the op
\* code and the bytes of its operands for the others.
FixedInsn(op_code, cur) ==
    IF op_code = 132
    THEN Insn(Narrow[132], <<bytes[cur + 2], I8FromByte(bytes[cur + 3])>>)
    ELSE IF op_code \in DOMAIN Narrow THEN Insn(Narrow[op_code], <<bytes[cur + 2]>>)
    ELSE Insn("Op", <<op_code>> \o BytesAt(cur + 1, Sum(OperandReads(op_code))))

\* The arm 0xC4 of parse_instruction, the op code read at cur.
WideAt(cur, at) ==
    IF ~Check(cur + 2) THEN Fail(cur + 1, LimitExceeded)
    ELSE LET wide_op == bytes[cur + 2]
             reads == IF wide_op = 132 THEN <<2, 2>> ELSE <<2>>
         IN
    IF wide_op \notin DOMAIN Wide THEN Fail(cur + 2, InvalidInstruction(196, at))
    ELSE IF StopsAt(cur + 2, reads) # -1 THEN Fail(StopsAt(cur + 2, reads), LimitExceeded)
    ELSE Read(cur + 2 + Sum(reads),
              Parsed(at + 2 + Sum(reads),
                     Insn(Wide[wide_op],
                          IF wide_op = 132
                          THEN <<U16FromBytes(BytesAt(cur + 2, 2)),
                                 I16FromBytes(BytesAt(cur + 4, 2))>>
                          ELSE <<U16FromBytes(BytesAt(cur + 2, 2))>>)))

\* `decoder.skip(3 - (at & 3) as usize)`
PaddingUnaligned(at) == 3
Padding(at) == 3 - (at % 4)

\* The i32 read_i32 reads in turn from cur on, n of them.
Offsets(cur, n) == [k \in 1 .. n |-> I32FromBytes(BytesAt(cur + 4 * (k - 1), 4))]

\* The arm 0xAA of parse_instruction, the op code read at cur. With overflow
\* checks `high - low + 1` and `high + 1` panic when they overflow; without,
\* they wrap. Vec::with_capacity panics on a negative i32 cast to usize.
TableSwitchAt(cur, at) ==
    LET c == cur + 1 + Padding(at) + 12 IN
    IF ~Check(cur + 1 + Padding(at)) THEN Fail(cur + 1, LimitExceeded)
    ELSE IF StopsAt(cur + 1 + Padding(at), <<4, 4, 4>>) # -1
    THEN Fail(StopsAt(cur + 1 + Padding(at), <<4, 4, 4>>), LimitExceeded)
    ELSE LET default == I32FromBytes(BytesAt(c - 12, 4))
             low == I32FromBytes(BytesAt(c - 8, 4))
             high == I32FromBytes(BytesAt(c - 4, 4))
             until == WrappingInc(high)
             fit == (limit - c) \div 4
         IN
    IF build = "debug" /\ (SubOverflows(high, low) \/ WrappingSub(high, low) = I32Max)
    THEN Fail(c, Panic)
    ELSE IF WrappingInc(WrappingSub(high, low)) < 0 THEN Fail(c, Panic)
    ELSE IF build = "debug" /\ high = I32Max THEN Fail(c, Panic)
    ELSE IF low < until /\ (IF SubOverflows(until, low) THEN TRUE ELSE until - low > fit)
    THEN Fail(c + 4 * fit, LimitExceeded)
    ELSE LET n == IF low < until THEN until - low ELSE 0 IN
         Read(c + 4 * n,
              Parsed(at + 1 + Padding(at) + 12 + 4 * n,
                     Insn("TableSwitch", <<default, low, high, Offsets(c, n)>>)))

\* The arm 0xAB of parse_instruction, the op code read at cur; the map is
\* kept as the set of its <<key, offset>>, a later pair replacing an earlier
\* one of the same key.
LookupSwitchAt(cur, at) ==
    LET c == cur + 1 + Padding(at) + 8 IN
    IF ~Check(cur + 1 + Padding(at)) THEN Fail(cur + 1, LimitExceeded)
    ELSE IF StopsAt(cur + 1 + Padding(at), <<4, 4>>) # -1
    THEN Fail(StopsAt(cur + 1 + Padding(at), <<4, 4>>), LimitExceeded)
    ELSE LET default == I32FromBytes(BytesAt(c - 8, 4))
             count == U32FromBytes(BytesAt(c - 4, 4))
             fit == (limit - c) \div 4
             read == Offsets(c, 2 * count[2])
         IN
    IF count[1] > 0 \/ 2 * count[2] > fit THEN Fail(c + 4 * fit, LimitExceeded)
    ELSE Read(c + 8 * count[2],
              Parsed(at + 1 + Padding(at) + 8 + 8 * count[2],
                     Insn("LookupSwitch",
                          <<default,
                            {<<read[2 * k - 1], read[2 * k]>> : k \in
                                {j \in 1 .. count[2] :
                                    \A i \in j + 1 .. count[2] :
                                        read[2 * i - 1] # read[2 * j - 1]}}>>)))

\* parse_instruction: the cursor it leaves, and the end and the node it
\* returns.
ParseInstructionAt(cur, at) ==
    IF ~Check(cur + 1) THEN Fail(cur, LimitExceeded)
    ELSE LET op_code == bytes[cur + 1] IN
    IF op_code = 170 THEN TableSwitchAt(cur, at)
    ELSE IF op_code = 171 THEN LookupSwitchAt(cur, at)
    ELSE IF op_code = 196 THEN WideAt(cur, at)
    ELSE IF op_code \in 203 .. 253 THEN Fail(cur + 1, InvalidInstruction(op_code, at))
    ELSE IF StopsAt(cur + 1, OperandReads(op_code)) # -1
    THEN Fail(StopsAt(cur + 1, OperandReads(op_code)), LimitExceeded)
    ELSE IF op_code = 188 /\ bytes[cur + 2] \notin 4 .. 11
    THEN Fail(cur + 2, InvalidInstruction(188, at))
    ELSE Read(cur + 1 + Sum(OperandReads(op_code)),
              Parsed(at + 1 + Sum(OperandReads(op_code)), FixedInsn(op_code, cur)))

\* parse_code: a pass of the loop over the instructions.
ParseInstruction ==
    /\ pc = "code"
    /\ LET r == ParseInstructionAt(cursor, Top.at) IN
       /\ cursor' = r.cursor
       /\ IF ~r.ok
          THEN pc' = "failed" /\ perr' = r.err /\ UNCHANGED frames
          ELSE /\ frames' = [frames EXCEPT
                                ![Len(frames)].at = r.val.end,
                                ![Len(frames)].instructions =
                                    Append(@, [at |-> Top.at, insn |-> r.val.insn])]
               /\ pc' = IF r.val.end = Top.length THEN "code_remove" ELSE "code"
               /\ UNCHANGED perr
    /\ UNCHANGED <<pool_vars, api_vars, bytes, limit, size, loop_index, tags_read,
                   wide_read, left, attrs, codec_vars, desc_vars, tree_vars>>

\* parse_code: `code_decoder.remove_limit()?`.
RemoveCodeLimit ==
    /\ pc = "code_remove"
    /\ IF limit = cursor
       THEN /\ pc' = "code_exceptions"
            /\ limit' = Top.limit
            /\ frames' = SubSeq(frames, 1, Len(frames) - 1)
            /\ UNCHANGED perr
       ELSE pc' = "failed" /\ perr' = LimitExceeded /\ UNCHANGED <<limit, frames>>
    /\ UNCHANGED <<pool_vars, api_vars, bytes, cursor, size, loop_index, tags_read,
                   wide_read, left, attrs, codec_vars, desc_vars, tree_vars>>

\* parse_code: the exception table; parse_attributes is called next.
ReadCodeExceptions ==
    /\ pc = "code_exceptions"
    /\ IF ~Check(cursor + 2)
       THEN pc' = "failed" /\ perr' = LimitExceeded /\ UNCHANGED cursor
       ELSE LET exception_count == U16FromBytes(BytesAt(cursor, 2))
                stop == StopsAt(cursor + 2, [k \in 1 .. 4 * exception_count |-> 2])
            IN IF stop # -1
               THEN pc' = "failed" /\ perr' = LimitExceeded /\ cursor' = stop
               ELSE /\ pc' = "attrs_count"
                    /\ cursor' = cursor + 2 + 8 * exception_count
                    /\ UNCHANGED perr
    /\ UNCHANGED <<pool_vars, api_vars, bytes, limit, size, loop_index, tags_read,
                   wide_read, attr_vars, codec_vars, desc_vars, tree_vars>>

\* parse_attributes: the loop is over, Ok(attributes): to the caller, when
\* it is parse_code in the "Code" arm of an enclosing attribute, or parse.
AttributesDone ==
    /\ pc = "attrs" /\ left = 0
    /\ IF frames = <<>> THEN TRUE ELSE Top.kind = "attr"
    /\ pc' = IF frames = <<>> THEN "attrs_done" ELSE "remove"
    /\ UNCHANGED <<pool_vars, api_vars, bytes, cursor, limit, perr, size, loop_index,
                   tags_read, wide_read, attr_vars, codec_vars, desc_vars, tree_vars>>

\* Decoder::remove_limit without the comparison of the limit with the cursor.
RemoveLimitUnchecked ==
    /\ pc = "remove"
    /\ pc' = "attrs"
    /\ attrs' = Append(attrs, [name |-> Top.name, start |-> Top.start,
                               length |-> Top.length, end |-> cursor,
                               variant |-> Arm(Top.name), name_index |-> Top.name_index])
    /\ limit' = Top.limit
    /\ left' = Top.left - 1
    /\ frames' = SubSeq(frames, 1, Len(frames) - 1)
    /\ UNCHANGED <<pool_vars, api_vars, bytes, cursor, perr, size, loop_index, tags_read,
                   wide_read, codec_vars, desc_vars, tree_vars>>

\* parse_attributes: `attr_decoder.remove_limit()?`, and on to the next pass
\* with the decoder the attribute's decoder was limited from.
RemoveLimit ==
    /\ pc = "remove"
    /\ IF limit = cursor
       THEN /\ pc' = "attrs"
            /\ attrs' = Append(attrs, [name |-> Top.name, start |-> Top.start,
                                       length |-> Top.length, end |-> cursor,
                                       variant |-> Arm(Top.name),
                                       name_index |-> Top.name_index])
            /\ limit' = Top.limit
            /\ left' = Top.left - 1
            /\ frames' = SubSeq(frames, 1, Len(frames) - 1)
            /\ UNCHANGED perr
       ELSE pc' = "failed" /\ perr' = LimitExceeded /\ UNCHANGED <<limit, left, frames, attrs>>
    /\ UNCHANGED <<pool_vars, api_vars, bytes, cursor, size, loop_index, tags_read,
                   wide_read, codec_vars, desc_vars, tree_vars>>

\* Limited decoders in use at a time.
MaxNest == 2

\* Decoder::read_bytes that leaves the cursor at the limit when it fails.
ReadBytesAtPartial(cur, count) ==
    IF ~Check(cur + count) THEN Fail(limit, LimitExceeded)
    ELSE Read(cur + count, BytesAt(cur, count))

\* Decoder::read_bytes
ReadBytesAt(cur, count) ==
    IF ~Check(cur + count) THEN Fail(cur, LimitExceeded)
    ELSE Read(cur + count, BytesAt(cur, count))

\* A call of the Decoder and what it returned.
DecoderCall(op, count, res) == [op |-> op, count |-> count, res |-> res]

\* read_bytes(count); read_u8 .. read_u64, read_i8 .. read_i64, read_f32 and
\* read_f64 are read_bytes(1), (2), (4) and (8) and a conversion.
DecoderReadBytes(count) ==
    /\ pc = "decoder"
    /\ decoded' = DecoderCall("read_bytes", count, ReadBytesAt(cursor, count))
    /\ cursor' = ReadBytesAt(cursor, count).cursor
    /\ UNCHANGED <<pool_vars, api_vars, bytes, limit, pc, perr, size, loop_index, tags_read,
                   wide_read, attr_vars, chars, buf, desc_vars, tree_vars>>

\* Decoder::skip
DecoderSkip(to) ==
    /\ pc = "decoder"
    /\ IF ~Check(cursor + to)
       THEN decoded' = DecoderCall("skip", to, Fail(cursor, LimitExceeded)) /\ UNCHANGED cursor
       ELSE decoded' = DecoderCall("skip", to, Read(cursor + to, <<>>)) /\ cursor' = cursor + to
    /\ UNCHANGED <<pool_vars, api_vars, bytes, limit, pc, perr, size, loop_index, tags_read,
                   wide_read, attr_vars, chars, buf, desc_vars, tree_vars>>

\* Decoder::limit: the decoder it returns is the one in use until its
\* remove_limit.
DecoderLimit(to) ==
    /\ pc = "decoder" /\ Len(frames) < MaxNest
    /\ IF ~Check(cursor + to)
       THEN /\ decoded' = DecoderCall("limit", to, Fail(cursor, LimitExceeded))
            /\ UNCHANGED <<limit, frames>>
       ELSE /\ decoded' = DecoderCall("limit", to, Read(cursor, <<>>))
            /\ limit' = cursor + to
            /\ frames' = Append(frames, Frame("decoder", <<>>, 0, cursor, to))
    /\ UNCHANGED <<pool_vars, api_vars, bytes, cursor, pc, perr, size, loop_index, tags_read,
                   wide_read, left, attrs, chars, buf, desc_vars, tree_vars>>

\* Decoder::remove_limit: the decoder is consumed, the one it was limited
\* from is in use again.
DecoderRemoveLimit ==
    /\ pc = "decoder" /\ frames # <<>>
    /\ decoded' = DecoderCall("remove_limit", 0,
                              IF limit = cursor THEN Read(cursor, <<>>)
                              ELSE Fail(cursor, LimitExceeded))
    /\ limit' = Top.limit
    /\ frames' = SubSeq(frames, 1, Len(frames) - 1)
    /\ UNCHANGED <<pool_vars, api_vars, bytes, cursor, pc, perr, size, loop_index, tags_read,
                   wide_read, left, attrs, chars, buf, desc_vars, tree_vars>>

----------------------------------------------------------------------------
(* Encoder::write_str and the UTF8 arm of write_constant_pool; read_str on *)
(* what was written and on given bytes.                                    *)

\* Encoder::write_str: the bytes pushed for one char.
WriteChar(u) ==
    IF u # 0 /\ u < 128 THEN <<u>>
    ELSE IF u < 2048 THEN <<192 + ((u \div 64) % 32), 128 + (u % 64)>>
    ELSE IF u < 65536
    THEN <<224 + ((u \div 4096) % 16), 128 + ((u \div 64) % 64), 128 + (u % 64)>>
    ELSE <<237, 160 + ((u \div 65536) % 16), 128 + ((u \div 4096) % 64),
           237, 176 + ((u \div 64) % 16), 128 + (u % 64)>>

\* Encoder::write_str
RECURSIVE WriteStr(_)
WriteStr(s) == IF s = <<>> THEN <<>> ELSE WriteChar(Head(s)) \o WriteStr(Tail(s))

\* str::len: the bytes of the string in UTF-8.
RECURSIVE StrLen(_)
StrLen(s) ==
    IF s = <<>> THEN 0
    ELSE (IF Head(s) < 128 THEN 1 ELSE IF Head(s) < 2048 THEN 2
          ELSE IF Head(s) < 65536 THEN 3 ELSE 4) + StrLen(Tail(s))

\* Encoder::write_u16
U16ToBytes(u) == <<u \div 256, u % 256>>

\* A call of read_str(len) at cursor start and what it returned.
Decoded(from, start, len, res) == [from |-> from, start |-> start, len |-> len, res |-> res]

\* Encoder::write_str on a new Encoder.
WriteStrCall ==
    /\ pc = "str"
    /\ pc' = "written"
    /\ buf' = WriteStr(chars)
    /\ UNCHANGED <<pool_vars, api_vars, bytes, cursor, limit, perr, size, loop_index,
                   tags_read, wide_read, attr_vars, chars, decoded, desc_vars, tree_vars>>

\* write_constant_pool: the arm of Item::UTF8, on a new Encoder.
WriteUtf8Item ==
    /\ pc = "str"
    /\ pc' = "item_written"
    /\ buf' = <<1>> \o U16ToBytes(StrLen(chars) % U16Mod) \o WriteStr(chars)
    /\ UNCHANGED <<pool_vars, api_vars, bytes, cursor, limit, perr, size, loop_index,
                   tags_read, wide_read, attr_vars, chars, decoded, desc_vars, tree_vars>>

\* Decoder::new on the bytes write_str produced.
NewDecoder ==
    /\ pc = "written"
    /\ pc' = "loaded"
    /\ bytes' = buf
    /\ cursor' = 0
    /\ limit' = Len(buf)
    /\ UNCHANGED <<pool_vars, api_vars, perr, size, loop_index, tags_read, wide_read,
                   attr_vars, codec_vars, desc_vars, tree_vars>>

\* Decoder::read_str: with the number of the bytes written as the length,
\* or with any length up to the end of given bytes.
ReadStrCall ==
    /\ pc \in {"loaded", "raw"}
    /\ \E len \in IF pc = "loaded" THEN {Len(bytes)} ELSE 0 .. Len(bytes) :
          /\ decoded' = Decoded(pc, cursor, len, ReadStr(cursor, len))
          /\ cursor' = ReadStr(cursor, len).cursor
    /\ pc' = "read"
    /\ UNCHANGED <<pool_vars, api_vars, bytes, limit, perr, size, loop_index, tags_read,
                   wide_read, attr_vars, chars, buf, desc_vars, tree_vars>>

----------------------------------------------------------------------------
(* parse after the constant pool, and write.  The attributes of the class, *)
(* of a field and of a method are the entries of `attrs`; write makes no   *)
(* use of them.                                                            *)

\* parse: the access flags, the names and the interfaces.  The flags of
\* AccessFlags cover the 16 bits, so from_bits_truncate keeps the value.
ParseClassInfo ==
    /\ pc = "pool_done"
    /\ IF StopsAt(cursor, <<2, 2, 2, 2>>) # -1
       THEN /\ pc' = "failed" /\ perr' = LimitExceeded
            /\ cursor' = StopsAt(cursor, <<2, 2, 2, 2>>)
            /\ UNCHANGED class
       ELSE LET interface_count == U16FromBytes(BytesAt(cursor + 6, 2))
                stop == StopsAt(cursor + 8, [k \in 1 .. interface_count |-> 2])
            IN IF stop # -1
               THEN pc' = "failed" /\ perr' = LimitExceeded /\ cursor' = stop /\ UNCHANGED class
               ELSE /\ pc' = "fields_count"
                    /\ cursor' = cursor + 8 + 2 * interface_count
                    /\ class' = [set |-> TRUE,
                                 minor_version |-> U16FromBytes(BytesAt(4, 2)),
                                 major_version |-> U16FromBytes(BytesAt(6, 2)),
                                 access_flags |-> U16FromBytes(BytesAt(cursor, 2)),
                                 name |-> U16FromBytes(BytesAt(cursor + 2, 2)),
                                 super_name |-> U16FromBytes(BytesAt(cursor + 4, 2)),
                                 interfaces |-> [k \in 1 .. interface_count |->
                                     U16FromBytes(BytesAt(cursor + 6 + 2 * k, 2))],
                                 fields |-> <<>>,
                                 methods |-> <<>>]
                    /\ UNCHANGED perr
    /\ UNCHANGED <<pool_vars, api_vars, bytes, limit, size, loop_index, tags_read,
                   wide_read, attr_vars, codec_vars, desc_vars>>

\* parse_fields and parse_methods: the count.
ReadMemberCount ==
    /\ pc \in {"fields_count", "methods_count"}
    /\ IF ~Check(cursor + 2)
       THEN pc' = "failed" /\ perr' = LimitExceeded /\ UNCHANGED <<cursor, left>>
       ELSE /\ pc' = IF pc = "fields_count" THEN "fields" ELSE "methods"
            /\ left' = U16FromBytes(BytesAt(cursor, 2))
            /\ cursor' = cursor + 2
            /\ UNCHANGED perr
    /\ UNCHANGED <<pool_vars, api_vars, bytes, limit, size, loop_index, tags_read,
                   wide_read, frames, attrs, codec_vars, desc_vars, tree_vars>>

\* parse_fields and parse_methods: a pass of the loop up to the call of
\* parse_attributes.
ParseMember ==
    /\ pc \in {"fields", "methods"} /\ left > 0
    /\ IF StopsAt(cursor, <<2, 2, 2>>) # -1
       THEN /\ pc' = "failed" /\ perr' = LimitExceeded
            /\ cursor' = StopsAt(cursor, <<2, 2, 2>>)
            /\ UNCHANGED frames
       ELSE /\ pc' = "attrs_count"
            /\ cursor' = cursor + 6
            /\ frames' = Append(frames, Frame(IF pc = "fields" THEN "field" ELSE "method",
                                              <<>>, 0, cursor, 0))
            /\ UNCHANGED perr
    /\ UNCHANGED <<pool_vars, api_vars, bytes, limit, size, loop_index, tags_read,
                   wide_read, left, attrs, codec_vars, desc_vars, tree_vars>>

\* parse_fields and parse_methods: parse_attributes has returned, the field
\* or method is pushed.
MemberDone ==
    /\ pc = "attrs" /\ left = 0
    /\ frames # <<>> /\ Top.kind \in {"field", "method"}
    /\ LET member == [access_flags |-> U16FromBytes(BytesAt(Top.start, 2)),
                      name |-> U16FromBytes(BytesAt(Top.start + 2, 2)),
                      desc |-> U16FromBytes(BytesAt(Top.start + 4, 2))]
       IN IF Top.kind = "field"
          THEN pc' = "fields" /\ class' = [class EXCEPT !.fields = Append(@, member)]
          ELSE pc' = "methods" /\ class' = [class EXCEPT !.methods = Append(@, member)]
    /\ left' = Top.left - 1
    /\ frames' = SubSeq(frames, 1, Len(frames) - 1)
    /\ UNCHANGED <<pool_vars, api_vars, bytes, cursor, limit, perr, size, loop_index,
                   tags_read, wide_read, attrs, codec_vars, desc_vars>>

\* parse_fields and parse_methods: the loop is over.
MembersDone ==
    /\ pc \in {"fields", "methods"} /\ left = 0
    /\ pc' = IF pc = "fields" THEN "methods_count" ELSE "attrs_count"
    /\ UNCHANGED <<pool_vars, api_vars, bytes, cursor, limit, perr, size, loop_index,
                   tags_read, wide_read, attr_vars, codec_vars, desc_vars, tree_vars>>

\* Encoder::write_i32
I32ToBytes(v) == <<(v \div 16777216) % 256, (v \div 65536) % 256, (v \div 256) % 256, v % 256>>

\* Encoder::write_i64, of four 16-bit limbs
I64ToBytes(v) == U16ToBytes(v[1]) \o U16ToBytes(v[2]) \o U16ToBytes(v[3]) \o U16ToBytes(v[4])

\* Encoder::write_f32 and write_f64, of the fields of the bit pattern
F32ToBytes(f) ==
    <<f.sign * 128 + f.exp \div 2, (f.exp % 2) * 128 + f.frac \div 65536,
      (f.frac \div 256) % 256, f.frac % 256>>
F64ToBytes(d) ==
    <<d.sign * 128 + d.exp \div 16, (d.exp % 16) * 16 + d.frac[1]>>
      \o U16ToBytes(d.frac[2]) \o U16ToBytes(d.frac[3]) \o U16ToBytes(d.frac[4])

\* write_constant_pool: the arm of an item.
WriteItem(item) ==
    CASE item.kind = "UTF8" ->
             <<1>> \o U16ToBytes(StrLen(item.v) % U16Mod) \o WriteStr(item.v)
      [] item.kind = "Integer" -> <<3>> \o I32ToBytes(item.v)
      [] item.kind = "Float" -> <<4>> \o F32ToBytes(item.v)
      [] item.kind = "Long" -> <<5>> \o I64ToBytes(item.v)
      [] item.kind = "Double" -> <<6>> \o F64ToBytes(item.v)
      [] item.kind = "Class" -> <<7>> \o U16ToBytes(item.v)
      [] item.kind = "String" -> <<8>> \o U16ToBytes(item.v)
      [] item.kind = "FieldRef" -> <<9>> \o U16ToBytes(item.v[1]) \o U16ToBytes(item.v[2])
      [] item.kind = "MethodRef" -> <<10>> \o U16ToBytes(item.v[1]) \o U16ToBytes(item.v[2])
      [] item.kind = "InterfaceMethodRef" ->
             <<11>> \o U16ToBytes(item.v[1]) \o U16ToBytes(item.v[2])
      [] item.kind = "NameAndType" -> <<12>> \o U16ToBytes(item.v[1]) \o U16ToBytes(item.v[2])
      [] item.kind = "MethodHandle" ->
             <<15, CHOOSE k \in 1 .. 9 : ReferenceKind(k) = item.v[1]>> \o U16ToBytes(item.v[2])
      [] item.kind = "MethodType" -> <<16>> \o U16ToBytes(item.v)
      [] item.kind = "InvokeDynamic" -> <<18>> \o U16ToBytes(item.v[1]) \o U16ToBytes(item.v[2])
      [] item.kind = "Module" -> <<19>> \o U16ToBytes(item.v)
      [] item.kind = "Package" -> <<20>> \o U16ToBytes(item.v)

\* Pool::encoded_length, of which only the call is in the sources: the
\* count a class file gives for the pool, len().
EncodedLength == PoolLen

\* write_constant_pool, over Pool::get_items: the slots that hold an item.
RECURSIVE WriteItems(_)
WriteItems(i) ==
    IF i > NumSlots THEN <<>>
    ELSE (IF Slot(i).some THEN WriteItem(Slot(i).item) ELSE <<>>) \o WriteItems(i + 1)

\* write_attributes
WriteAttributes == <<0, 0>>

\* write_fields and write_methods
RECURSIVE WriteMembers(_)
WriteMembers(ms) ==
    IF ms = <<>> THEN <<>>
    ELSE U16ToBytes(Head(ms).access_flags) \o U16ToBytes(Head(ms).name)
           \o U16ToBytes(Head(ms).desc) \o WriteAttributes \o WriteMembers(Tail(ms))

RECURSIVE WriteU16s(_)
WriteU16s(us) == IF us = <<>> THEN <<>> ELSE U16ToBytes(Head(us)) \o WriteU16s(Tail(us))

\* parse: Ok((constant_pool, class)).
ClassDone ==
    /\ pc = "attrs_done" /\ class.set
    /\ pc' = "parsed"
    /\ UNCHANGED <<pool_vars, api_vars, bytes, cursor, limit, perr, size, loop_index,
                   tags_read, wide_read, attr_vars, codec_vars, desc_vars, tree_vars>>

\* write, on the pool and the class parse returned.
WriteClass ==
    /\ pc = "parsed"
    /\ pc' = "class_written"
    /\ buf' = MAGIC \o U16ToBytes(class.minor_version) \o U16ToBytes(class.major_version)
                \o U16ToBytes(EncodedLength) \o WriteItems(1)
                \o U16ToBytes(class.access_flags) \o U16ToBytes(class.name)
                \o U16ToBytes(class.super_name)
                \o U16ToBytes(Len(class.interfaces) % U16Mod) \o WriteU16s(class.interfaces)
                \o U16ToBytes(Len(class.fields) % U16Mod) \o WriteMembers(class.fields)
                \o U16ToBytes(Len(class.methods) % U16Mod) \o WriteMembers(class.methods)
                \o WriteAttributes
    /\ UNCHANGED <<pool_vars, api_vars, bytes, cursor, limit, perr, size, loop_index,
                   tags_read, wide_read, attr_vars, chars, decoded, desc_vars, tree_vars>>

----------------------------------------------------------------------------
(* Descriptors: TypeDescriptor and MethodDescriptor, from_str and Display. *)
(* A string is the sequence of the code points of its chars.               *)

\* The chars the descriptor grammar names: '[', 'L', ';', '(', ')', 'V'.
Bracket == 91
RefTag == 76
Semicolon == 59
OpenParen == 40
CloseParen == 41
VoidTag == 86

\* u8::MAX, where `dimensions.checked_add(1)` gives None
MaxDimensions == 255

\* `params.len() > 255`
MaxParams == 255

\* The match of the type tags: 'Z', 'B', 'S', 'I', 'J', 'F', 'D', 'C'.
PrimitiveTags ==
    [Boolean |-> 90, Byte |-> 66, Short |-> 83, Int |-> 73, Long |-> 74,
     Float |-> 70, Double |-> 68, Char |-> 67]

IsPrimitive(ch) == \E t \in DOMAIN PrimitiveTags : PrimitiveTags[t] = ch

\* Type: a primitive, or Type::Reference(name).
Primitive(ch) ==
    [tag |-> CHOOSE t \in DOMAIN PrimitiveTags : PrimitiveTags[t] = ch, name |-> <<>>]
Reference(name) == [tag |-> "Reference", name |-> name]

\* TypeDescriptor::new
TypeDescriptor(dimensions, base_type) == [dimensions |-> dimensions, base_type |-> base_type]

\* Option<TypeDescriptor> of MethodDescriptor.return_type
NoType == [some |-> FALSE, v |-> TypeDescriptor(0, Reference(<<>>))]
SomeType(d) == [some |-> TRUE, v |-> d]

\* MethodDescriptor::new
MethodDescriptor(params, return_type) == [params |-> params, return_type |-> return_type]

\* Result of from_str: Ok(descriptor), or Err(Error::InvalidDescriptor { desc, at }).
DescOk(d) == [ok |-> TRUE, val |-> d, desc |-> <<>>, at |-> 0]
InvalidDescriptor(s, at) == [ok |-> FALSE, val |-> <<>>, desc |-> s, at |-> at]

\* The locals of a from_str call: `chars` as the string s and the place pos
\* of the next char, `i`, `dimensions`, `state`, `params`, `name`, the
\* loop the call is in, and what it returned.
Parser(s) ==
    [s |-> s, phase |-> "tag", pos |-> 1, i |-> 0, dimensions |-> 0, state |-> 0,
     params |-> <<>>, name |-> <<>>, res |-> InvalidDescriptor(<<>>, 0)]

\* `return` and `err!()`
Return(p, res) == [p EXCEPT !.phase = "done", !.res = res]
Err(p, at) == Return(p, InvalidDescriptor(p.s, at))

\* `chars.count()`
CharsCount(p) == Len(p.s) - (p.pos - 1)

\* The pass of that loop with `dimensions + 1` in place of the checked_add.
TypeTagUnchecked(p) ==
    IF p.pos > Len(p.s) THEN Err(p, p.i)
    ELSE LET ch == p.s[p.pos]
             q == [p EXCEPT !.pos = @ + 1]
         IN IF ch = Bracket THEN [q EXCEPT !.dimensions = @ + 1, !.i = @ + 1]
            ELSE IF ch = RefTag THEN [q EXCEPT !.phase = "name"]
            ELSE IF CharsCount(q) # 0 THEN Err(q, p.i)
            ELSE IF IsPrimitive(ch)
                 THEN Return(q, DescOk(TypeDescriptor(p.dimensions, Primitive(ch))))
                 ELSE Err(q, p.i)

\* TypeDescriptor::from_str: a pass of the loop that reads the dimensions
\* and the type tag.
TypeTag(p) ==
    IF p.pos > Len(p.s) THEN Err(p, p.i)
    ELSE LET ch == p.s[p.pos]
             q == [p EXCEPT !.pos = @ + 1]
         IN IF ch = Bracket
            THEN IF p.dimensions = MaxDimensions
                 THEN Err(q, p.i)
                 ELSE [q EXCEPT !.dimensions = @ + 1, !.i = @ + 1]
            ELSE IF ch = RefTag THEN [q EXCEPT !.phase = "name"]
            ELSE IF CharsCount(q) # 0 THEN Err(q, p.i)
            ELSE IF IsPrimitive(ch)
                 THEN Return(q, DescOk(TypeDescriptor(p.dimensions, Primitive(ch))))
                 ELSE Err(q, p.i)

\* TypeDescriptor::from_str: a pass of the loop that reads the name of the
\* reference.
TypeName(p) ==
    IF p.pos > Len(p.s) THEN Err(p, p.i)
    ELSE LET ch == p.s[p.pos]
             q == [p EXCEPT !.pos = @ + 1, !.i = @ + 1]
         IN IF ch = Semicolon
            THEN IF p.name = <<>> \/ CharsCount(q) # 0
                 THEN Err(q, q.i)
                 ELSE Return(q, DescOk(TypeDescriptor(p.dimensions, Reference(p.name))))
            ELSE [q EXCEPT !.name = Append(@, ch)]

\* `"[".repeat(n)`
Repeat(ch, n) == [j \in 1 .. n |-> ch]

\* Display for TypeDescriptor with the dimensions left out.
TypeToStringNoDimensions(d) ==
    IF d.base_type.tag = "Reference"
    THEN <<RefTag>> \o d.base_type.name \o <<Semicolon>>
    ELSE <<PrimitiveTags[d.base_type.tag]>>

\* Display for TypeDescriptor
TypeToString(d) ==
    Repeat(Bracket, d.dimensions)
      \o (IF d.base_type.tag = "Reference"
          THEN <<RefTag>> \o d.base_type.name \o <<Semicolon>>
          ELSE <<PrimitiveTags[d.base_type.tag]>>)

\* The end of from_str without the limit on the params.
MethodEndUnchecked(p, ret) ==
    IF CharsCount(p) # 0
    THEN Err(p, p.i)
    ELSE Return(p, DescOk(MethodDescriptor(p.params, ret)))

\* MethodDescriptor::from_str, after 'type_loop
MethodEnd(p, ret) ==
    IF CharsCount(p) # 0 \/ Len(p.params) > MaxParams
    THEN Err(p, p.i)
    ELSE Return(p, DescOk(MethodDescriptor(p.params, ret)))

\* MethodDescriptor::from_str: a parsed TypeDescriptor is pushed and
\* 'type_loop continued, or is the return type and 'type_loop left.
MethodPush(p, d) ==
    IF p.state = 0
    THEN [p EXCEPT !.params = Append(@, d), !.phase = "tag", !.dimensions = 0,
                   !.name = <<>>]
    ELSE MethodEnd(p, SomeType(d))

\* MethodDescriptor::from_str: a pass of the loop of 'type_loop that reads
\* the dimensions and the type tag.
MethodTag(p) ==
    IF p.pos > Len(p.s) THEN Err(p, p.i)
    ELSE LET ch == p.s[p.pos]
             q == [p EXCEPT !.pos = @ + 1, !.i = @ + 1]
         IN IF ch = Bracket
            THEN IF p.dimensions = MaxDimensions
                 THEN Err(q, q.i)
                 ELSE [q EXCEPT !.dimensions = @ + 1]
            ELSE IF p.state = 0 /\ ch = CloseParen
                 THEN IF p.dimensions # 0 THEN Err(q, q.i) ELSE [q EXCEPT !.state = 1]
            ELSE IF p.state = 1 /\ ch = VoidTag
                 THEN IF p.dimensions # 0 THEN Err(q, q.i) ELSE MethodEnd(q, NoType)
            ELSE IF ch = RefTag THEN [q EXCEPT !.phase = "name"]
            ELSE IF IsPrimitive(ch)
                 THEN MethodPush(q, TypeDescriptor(p.dimensions, Primitive(ch)))
                 ELSE Err(q, q.i)

\* MethodDescriptor::from_str: a pass of the loop that reads the name of
\* the reference.
MethodName(p) ==
    IF p.pos > Len(p.s) THEN Err(p, p.i)
    ELSE LET ch == p.s[p.pos]
             q == [p EXCEPT !.pos = @ + 1, !.i = @ + 1]
         IN IF ch = Semicolon
            THEN IF p.name = <<>>
                 THEN Err(q, q.i)
                 ELSE MethodPush(q, TypeDescriptor(p.dimensions, Reference(p.name)))
            ELSE [q EXCEPT !.name = Append(@, ch)]

\* MethodDescriptor::from_str: `match chars.next()` for the '('.
MethodOpen(p) ==
    IF p.s = <<>> \/ p.s[1] # OpenParen THEN Err(p, 0) ELSE [p EXCEPT !.pos = 2]

\* Display for MethodDescriptor: `for param in &self.params { param.fmt(f)?; }`,
\* the strings of the two halves of the params one after the other.
RECURSIVE ParamsToString(_)
ParamsToString(params) ==
    IF params = <<>> THEN <<>>
    ELSE IF Len(params) = 1 THEN TypeToString(params[1])
    ELSE LET half == Len(params) \div 2
         IN ParamsToString(SubSeq(params, 1, half))
              \o ParamsToString(SubSeq(params, half + 1, Len(params)))

\* Display for MethodDescriptor
MethodToString(d) ==
    <<OpenParen>> \o ParamsToString(d.params) \o <<CloseParen>>
      \o (IF d.return_type.some THEN TypeToString(d.return_type.v) ELSE <<VoidTag>>)

\* to_string of a TypeDescriptor or of a MethodDescriptor
DescToStr(kind, d) == IF kind = "type" THEN TypeToString(d) ELSE MethodToString(d)

\* from_str up to its first loop, and a pass of the loop it is in.
StartParser(kind, s) == IF kind = "type" THEN Parser(s) ELSE MethodOpen(Parser(s))
StepParser(kind, p) ==
    IF kind = "type"
    THEN (IF p.phase = "tag" THEN TypeTag(p) ELSE TypeName(p))
    ELSE (IF p.phase = "tag" THEN MethodTag(p) ELSE MethodName(p))

\* No result of from_str yet.
NoParse == InvalidDescriptor(<<>>, 0)

\* from_str has returned: its result is that of `desc.parse()`, or that of
\* the parse of the formatted descriptor.
FromStrReturned(prev, p) ==
    /\ parsed' = IF prev.round = "first"
                 THEN [prev EXCEPT !.p = p, !.first = p.res]
                 ELSE [prev EXCEPT !.p = p, !.again = p.res]
    /\ pc' = IF prev.round = "again" THEN "desc_again"
             ELSE IF p.res.ok THEN "desc_parsed" ELSE "desc_failed"

\* from_str has run up to p.
Ran(prev, p) ==
    IF p.phase = "done" THEN FromStrReturned(prev, p)
    ELSE parsed' = [prev EXCEPT !.p = p] /\ pc' = "desc_parsing"

\* `desc.parse()` as a TypeDescriptor or as a MethodDescriptor: the call.
DescFromStr ==
    /\ pc = "desc"
    /\ \E kind \in {"type", "method"} :
          Ran([kind |-> kind, round |-> "first", p |-> Parser(desc),
               first |-> NoParse, again |-> NoParse],
              StartParser(kind, desc))
    /\ UNCHANGED <<pool_vars, api_vars, bytes, cursor, limit, perr, size, loop_index,
                   tags_read, wide_read, attr_vars, codec_vars, desc, shown, tree_vars>>

\* from_str: a pass of the loop it is in.
DescStep ==
    /\ pc = "desc_parsing"
    /\ Ran(parsed, StepParser(parsed.kind, parsed.p))
    /\ UNCHANGED <<pool_vars, api_vars, bytes, cursor, limit, perr, size, loop_index,
                   tags_read, wide_read, attr_vars, codec_vars, desc, shown, tree_vars>>

\* `to_string()` of the parsed descriptor
DescToString ==
    /\ pc = "desc_parsed"
    /\ shown' = DescToStr(parsed.kind, parsed.first.val)
    /\ pc' = "desc_shown"
    /\ UNCHANGED <<pool_vars, api_vars, bytes, cursor, limit, perr, size, loop_index,
                   tags_read, wide_read, attr_vars, codec_vars, desc, parsed, tree_vars>>

\* `parse()` of the formatted descriptor: the call.
DescFromShown ==
    /\ pc = "desc_shown"
    /\ Ran([parsed EXCEPT !.round = "again"], StartParser(parsed.kind, shown))
    /\ UNCHANGED <<pool_vars, api_vars, bytes, cursor, limit, perr, size, loop_index,
                   tags_read, wide_read, attr_vars, codec_vars, desc, shown, tree_vars>>

----------------------------------------------------------------------------
(* Initial pools: Pool::new() (Pool::with_capacity(cap) differs only in    *)
(* the capacity reserved), and the pool that pushing the distinct items    *)
(* Integer(1) .. Integer(n) onto Pool::new() gives.                        *)

\* No attribute table, string or descriptor is being worked on.
AttrIdle == frames = <<>> /\ left = 0 /\ attrs = <<>>
CodecIdle == chars = <<>> /\ buf = <<>> /\ decoded = Fail(0, NoResult)
DescIdle == desc = <<>> /\ parsed = Fail(0, NoResult) /\ shown = <<>>

\* No Class has been built.
NoClass == [set |-> FALSE]
TreeIdle == class = NoClass

NoIter == [live |-> FALSE, pos |-> 0, index |-> 0, calls |-> 0]

Prefilled(n) ==
    /\ prefix = n
    /\ length = n + 1
    /\ by_index = <<>>
    /\ by_entry = <<>>

Init ==
    /\ \/ Prefilled(0)
       \/ Prefilled(U16Max - 1 - NearFull)
    /\ status = "running"
    /\ build \in {"debug", "release"}
    /\ last = Call("new", NoItem, 0, NoResult)
    /\ log = {}
    /\ inserted = <<>>
    /\ only_push = TRUE
    /\ npush = 0
    /\ iter = NoIter
    /\ yielded = <<>>
    /\ bytes = <<>> /\ cursor = 0 /\ limit = 0
    /\ pc = "idle" /\ perr = NoResult
    /\ size = 0 /\ loop_index = 0 /\ tags_read = 0 /\ wide_read = 0
    /\ AttrIdle /\ CodecIdle /\ DescIdle /\ TreeIdle

Next ==
    \/ \E item \in Items : Push(item)
    \/ \E item \in Items : PushDuplicate(item)
    \/ \E index \in GetIndices : Get(index)
    \/ Iter
    \/ IterNext
    \/ IterDrop

Spec == Init /\ [][Next]_vars

----------------------------------------------------------------------------
(* The inputs of parse: a header, a count, constant pool entries and the   *)
(* bytes after the pool (access flags 0x0021, this_class 2, super_class 0).*)

\* Entries in the inputs of parse.
MaxEntries == 3

Header == MAGIC \o <<0, 0, 0, 52>>
Trailer == <<0, 33, 0, 2, 0, 0>>

EntryKinds == {"utf8", "int", "long", "class"}

\* The bytes of an entry: UTF8("x"), Integer(123), Long(32767), Class(1).
EntryBytes(kind) ==
    CASE kind = "utf8"  -> <<1, 0, 1, 120>>
      [] kind = "int"   -> <<3, 0, 0, 0, 123>>
      [] kind = "long"  -> <<5, 0, 0, 0, 0, 0, 0, 127, 255>>
      [] kind = "class" -> <<7, 0, 1>>

\* The indices the entries take: two for a long.
RECURSIVE SlotsOf(_)
SlotsOf(es) ==
    IF es = <<>> THEN 0
    ELSE (IF Head(es) = "long" THEN 2 ELSE 1) + SlotsOf(Tail(es))

RECURSIVE Flat(_)
Flat(es) == IF es = <<>> THEN <<>> ELSE EntryBytes(Head(es)) \o Flat(Tail(es))

EntrySeqs == UNION {[1 .. n -> EntryKinds] : n \in 0 .. MaxEntries}

\* A class file counts the indices taken plus one; the inputs also hold
\* the count of the entries plus one.
Inputs ==
    UNION {{Header \o <<0, c>> \o Flat(es) \o Trailer :
               c \in {1 + SlotsOf(es), 1 + Len(es)}} : es \in EntrySeqs}

\* Buffers for the magic check of parse: every buffer of at most four bytes
\* over the bytes of MAGIC and 00, and the four-byte ones followed by a
\* version, the count 1 and the bytes after the pool.
MagicBytes == {202, 254, 186, 190, 0}

MagicInputs ==
    UNION {[1 .. n -> MagicBytes] : n \in 0 .. 4}
      \cup {m \o <<0, 0, 0, 52, 0, 1>> \o Trailer : m \in [1 .. 4 -> MagicBytes]}

InitParse ==
    /\ Prefilled(0)
    /\ status = "running"
    /\ build \in {"debug", "release"}
    /\ last = Call("new", NoItem, 0, NoResult)
    /\ log = {}
    /\ inserted = <<>>
    /\ only_push = TRUE
    /\ npush = 0
    /\ iter = NoIter
    /\ yielded = <<>>
    /\ bytes \in Inputs \cup MagicInputs
    /\ cursor = 0
    /\ limit = Len(bytes)    \* Decoder::new
    /\ pc = "header" /\ perr = NoResult
    /\ size = 0 /\ loop_index = 0 /\ tags_read = 0 /\ wide_read = 0
    /\ AttrIdle /\ CodecIdle /\ DescIdle /\ TreeIdle

NextParse ==
    \/ ParseHeader
    \/ ReadPoolCount
    \/ ReadPoolEntry
    \/ PoolDone

SpecParse == InitParse /\ [][NextParse]_vars

----------------------------------------------------------------------------
(* The inputs of parse_attributes: attribute tables over a pool that holds *)
(* the names "Code", "ConstantValue", "Deprecated", "Exceptions",          *)
(* "SourceDebugExtension" and "X" at the indices 1 .. 6 and Integer(123)   *)
(* at the index 7.                                                         *)

\* Attributes in a table of the inputs.
MaxAttrs == 2

AttrPool ==
    <<Some(UTF8(AttributeName.Code)), Some(UTF8(AttributeName.ConstantValue)),
      Some(UTF8(AttributeName.Deprecated)), Some(UTF8(AttributeName.Exceptions)),
      Some(UTF8(AttributeName.SourceDebugExtension)), Some(UTF8(<<88>>)),
      Some(Integer(123))>>

\* attribute_info: the name index, the declared length, the body.
Attr(name_index, declared, body) == <<0, name_index, 0, 0, 0, declared>> \o body

RECURSIVE Concat(_)
Concat(ss) == IF ss = <<>> THEN <<>> ELSE Head(ss) \o Concat(Tail(ss))

\* Attributes other than Code: bodies of the declared length that the arm
\* reads exactly, reads less of, or would read past.
SimpleAttrs ==
    {Attr(2, 2, <<0, 7>>), Attr(2, 1, <<0>>), Attr(2, 3, <<0, 7, 0>>),
     Attr(3, 0, <<>>), Attr(3, 1, <<0>>),
     Attr(4, 4, <<0, 1, 0, 5>>), Attr(4, 2, <<0, 1>>),
     Attr(5, 1, <<120>>), Attr(5, 1, <<194>>), Attr(5, 2, <<194, 128>>),
     Attr(6, 2, <<1, 2>>),
     Attr(7, 0, <<>>)}

\* Code arrays with their code_length: return; bipush 5, return; nop under
\* a code_length of 2; sipush cut by the code_length; an unknown op code.
CodeArrays ==
    {<<0, 0, 0, 1, 177>>, <<0, 0, 0, 3, 16, 5, 177>>, <<0, 0, 0, 2, 0>>,
     <<0, 0, 0, 1, 17>>, <<0, 0, 0, 1, 203>>}

ExceptionTables == {<<0, 0>>, <<0, 1, 0, 0, 0, 1, 0, 1, 0, 0>>}

AttrTable(as) == <<0, Len(as)>> \o Concat(as)

CodeBodies ==
    {<<0, 1, 0, 1>> \o c \o e \o AttrTable(as) :
        c \in CodeArrays, e \in ExceptionTables,
        as \in {<<>>} \cup {<<a>> : a \in SimpleAttrs}}

\* Code attributes that declare the length of the body, one byte less, and
\* one byte more with a byte of padding.
CodeAttrs ==
    {Attr(1, Len(b), b) : b \in CodeBodies}
      \cup {Attr(1, Len(b) - 1, b) : b \in CodeBodies}
      \cup {Attr(1, Len(b) + 1, b \o <<0>>) : b \in CodeBodies}

\* Tables with the count of their attributes, and with a count one higher.
AttrInputs ==
    LET simple == UNION {[1 .. n -> SimpleAttrs] : n \in 0 .. MaxAttrs}
        code == {<<c>> : c \in CodeAttrs}
                  \cup {<<c, a>> : c \in CodeAttrs, a \in {Attr(3, 0, <<>>), Attr(2, 3, <<0, 7, 0>>)}}
    IN {AttrTable(as) : as \in simple \cup code}
         \cup {<<0, Len(as) + 1>> \o Concat(as) : as \in simple}

InitAttr ==
    /\ prefix = 0
    /\ by_index = AttrPool
    /\ length = Len(AttrPool) + 1
    /\ by_entry = [it \in {AttrPool[k].item : k \in 1 .. Len(AttrPool)} |->
                       CHOOSE k \in 1 .. Len(AttrPool) : AttrPool[k].item = it]
    /\ status = "running"
    /\ build \in {"debug", "release"}
    /\ last = Call("new", NoItem, 0, NoResult)
    /\ log = {}
    /\ inserted = <<>>
    /\ only_push = TRUE
    /\ npush = 0
    /\ iter = NoIter
    /\ yielded = <<>>
    /\ bytes \in AttrInputs
    /\ cursor = 0
    /\ limit = Len(bytes)
    /\ pc = "attrs_count" /\ perr = NoResult
    /\ size = 0 /\ loop_index = 0 /\ tags_read = 0 /\ wide_read = 0
    /\ AttrIdle /\ CodecIdle /\ DescIdle /\ TreeIdle

NextAttr ==
    \/ ReadAttributeCount
    \/ LimitAttribute
    \/ ParseBody
    \/ LimitCode
    \/ ParseInstruction
    \/ RemoveCodeLimit
    \/ ReadCodeExceptions
    \/ AttributesDone
    \/ RemoveLimit

SpecAttr == InitAttr /\ [][NextAttr]_vars

----------------------------------------------------------------------------
(* The inputs of parse_code: Code attributes, over the pool above, whose   *)
(* code array is at most three nop, one instruction with operands and at   *)
(* most one return, with a code_length that is the length of the array or  *)
(* one less.  The bytes a switch skips are 1, 2 and 3.                     *)

\* Offsets that follow the high of a tableswitch.
MaxOffsets == 2

\* The bytes of some i32: 0, 1, 5, -1, the least, the greatest and the one
\* before the greatest.
Zero      == <<0, 0, 0, 0>>
One       == <<0, 0, 0, 1>>
Five      == <<0, 0, 0, 5>>
MinusOne  == <<255, 255, 255, 255>>
Least     == <<128, 0, 0, 0>>
Greatest  == <<127, 255, 255, 255>>
Greatest1 == <<127, 255, 255, 254>>

\* Instructions with a local variable index, and iinc.
NarrowForms ==
    {<<op_code, 7>> : op_code \in (21 .. 25) \cup (54 .. 58) \cup {169}}
      \cup {<<132, 7, 255>>}

\* 0xC4 before the op codes above, before 0x40, and before nop, wide and
\* tableswitch.
WideForms ==
    {<<196, op_code, 1, 2>> :
        op_code \in (21 .. 25) \cup (54 .. 58) \cup {64, 169, 0, 196, 170}}
      \cup {<<196, 132, 1, 2, 255, 254>>, <<196, 132, 1, 2, 0, 3>>}

\* The bytes after the padding of a tableswitch: default 9, low, high and
\* the offsets 17, 18.
TableForms ==
    {<<0, 0, 0, 9>> \o lh[1] \o lh[2] \o Concat([k \in 1 .. n |-> <<0, 0, 0, 16 + k>>]) :
        lh \in {<<Zero, One>>, <<Five, Five>>, <<Greatest, Greatest>>,
                <<Greatest1, Greatest>>, <<Least, Greatest>>, <<MinusOne, Greatest>>,
                <<Zero, Greatest>>, <<One, Zero>>, <<Five, Zero>>, <<Least, MinusOne>>,
                <<MinusOne, Zero>>},
        n \in 0 .. MaxOffsets}

\* The bytes after the padding of a lookupswitch: default 9, the count and
\* the pairs.
LookupForms ==
    {<<0, 0, 0, 9>> \o Zero,
     <<0, 0, 0, 9>> \o One \o Five \o <<0, 0, 0, 17>>,
     <<0, 0, 0, 9>> \o <<0, 0, 0, 2>> \o Five \o <<0, 0, 0, 17>> \o Five \o <<0, 0, 0, 18>>,
     <<0, 0, 0, 9>> \o <<0, 0, 0, 2>> \o Five \o <<0, 0, 0, 17>>,
     <<0, 0, 0, 9>> \o <<0, 1, 0, 0>> \o Five \o <<0, 0, 0, 17>>}

\* The code arrays: `nops` nop, the instruction, `returns` return.
CodeOf(nops, insn, returns) ==
    [k \in 1 .. nops |-> 0]
      \o (IF Head(insn) \in {170, 171}
          THEN <<Head(insn)>> \o SubSeq(<<1, 2, 3>>, 1, 3 - (nops % 4)) \o Tail(insn)
          ELSE insn)
      \o [k \in 1 .. returns |-> 177]

Codes ==
    {CodeOf(nops, insn, returns) :
        nops \in 0 .. 3, returns \in 0 .. 1,
        insn \in NarrowForms \cup WideForms
                   \cup {<<170>> \o t : t \in TableForms}
                   \cup {<<171>> \o l : l \in LookupForms}}

CodeInputs ==
    {AttrTable(<<Attr(1, 10 + Len(c) + Len(as), <<0, 1, 0, 1, 0, 0, 0, Len(c) - cut>>
                                                  \o c \o <<0, 0>> \o as)>>) :
        c \in Codes, cut \in 0 .. 1,
        as \in {AttrTable(<<>>), AttrTable(<<Attr(3, 0, <<>>)>>)}}

InitCode ==
    /\ prefix = 0
    /\ by_index = AttrPool
    /\ length = Len(AttrPool) + 1
    /\ by_entry = [it \in {AttrPool[k].item : k \in 1 .. Len(AttrPool)} |->
                       CHOOSE k \in 1 .. Len(AttrPool) : AttrPool[k].item = it]
    /\ status = "running"
    /\ build \in {"debug", "release"}
    /\ last = Call("new", NoItem, 0, NoResult)
    /\ log = {}
    /\ inserted = <<>>
    /\ only_push = TRUE
    /\ npush = 0
    /\ iter = NoIter
    /\ yielded = <<>>
    /\ bytes \in CodeInputs
    /\ cursor = 0
    /\ limit = Len(bytes)
    /\ pc = "attrs_count" /\ perr = NoResult
    /\ size = 0 /\ loop_index = 0 /\ tags_read = 0 /\ wide_read = 0
    /\ AttrIdle /\ CodecIdle /\ DescIdle /\ TreeIdle

SpecCode == InitCode /\ [][NextAttr]_vars

----------------------------------------------------------------------------
(* The inputs of parse_attributes for the names: tables of one or two      *)
(* attributes over a pool that holds, after the entries of the pool above, *)
(* "SourceFile", "Synthetic", "Signature", "ModuleMainClass",              *)
(* "EnclosingMethods" and "EnclosingMethod" at the indices 8 .. 13.        *)

NamePool ==
    AttrPool \o
    <<Some(UTF8(AttributeName.SourceFile)), Some(UTF8(AttributeName.Synthetic)),
      Some(UTF8(AttributeName.Signature)), Some(UTF8(AttributeName.ModuleMainClass)),
      Some(UTF8(AttributeName.EnclosingMethod)),
      Some(UTF8(SubSeq(AttributeName.EnclosingMethod, 1, 15)))>>

\* Attributes of a table.
MaxNamed == 2

\* Attributes of every name but Code with a body of 0, 2 and 4 bytes, and
\* Code attributes with and without an attribute of their own.
NamedAttrs ==
    {Attr(i, Len(b), b) : i \in 2 .. 13, b \in {<<>>, <<0, 1>>, <<0, 1, 0, 5>>}}
      \cup {Attr(1, 13 + Len(as), <<0, 1, 0, 1, 0, 0, 0, 1, 177, 0, 0>> \o AttrTable(as)) :
               as \in {<<>>, <<Attr(13, 4, <<0, 1, 0, 5>>)>>}}

NameInputs == {AttrTable(as) : as \in UNION {[1 .. n -> NamedAttrs] : n \in 1 .. MaxNamed}}

InitNames ==
    /\ prefix = 0
    /\ by_index = NamePool
    /\ length = Len(NamePool) + 1
    /\ by_entry = [it \in {NamePool[k].item : k \in 1 .. Len(NamePool)} |->
                       CHOOSE k \in 1 .. Len(NamePool) : NamePool[k].item = it]
    /\ status = "running"
    /\ build \in {"debug", "release"}
    /\ last = Call("new", NoItem, 0, NoResult)
    /\ log = {}
    /\ inserted = <<>>
    /\ only_push = TRUE
    /\ npush = 0
    /\ iter = NoIter
    /\ yielded = <<>>
    /\ bytes \in NameInputs
    /\ cursor = 0
    /\ limit = Len(bytes)
    /\ pc = "attrs_count" /\ perr = NoResult
    /\ size = 0 /\ loop_index = 0 /\ tags_read = 0 /\ wide_read = 0
    /\ AttrIdle /\ CodecIdle /\ DescIdle /\ TreeIdle

SpecNames == InitNames /\ [][NextAttr]_vars

----------------------------------------------------------------------------
(* The calls of a Decoder: Decoder::new on at most MaxBytes bytes, and     *)
(* reads, skips, and limits nested at most MaxNest deep.                   *)

\* The bytes of the input.
MaxBytes == 6

\* The counts of read_bytes: those of read_u8 .. read_u64, none, 3, and a
\* length no input has.
ReadCounts == {0, 1, 2, 3, 4, 8, 65536}

\* The counts of skip: those of the padding of a switch, and of the unused
\* bytes of invokeinterface and invokedynamic.
SkipCounts == 0 .. 3

InitDecoder ==
    /\ Prefilled(0)
    /\ status = "running"
    /\ build \in {"debug", "release"}
    /\ last = Call("new", NoItem, 0, NoResult)
    /\ log = {}
    /\ inserted = <<>>
    /\ only_push = TRUE
    /\ npush = 0
    /\ iter = NoIter
    /\ yielded = <<>>
    /\ bytes \in {[k \in 1 .. n |-> 16 * k] : n \in 0 .. MaxBytes}
    /\ cursor = 0
    /\ limit = Len(bytes)
    /\ pc = "decoder" /\ perr = NoResult
    /\ size = 0 /\ loop_index = 0 /\ tags_read = 0 /\ wide_read = 0
    /\ AttrIdle /\ CodecIdle /\ DescIdle /\ TreeIdle

NextDecoder ==
    \/ \E count \in ReadCounts : DecoderReadBytes(count)
    \/ \E to \in SkipCounts : DecoderSkip(to)
    \/ \E to \in 0 .. MaxBytes : DecoderLimit(to)
    \/ DecoderRemoveLimit

SpecDecoder == InitDecoder /\ [][NextDecoder]_vars

----------------------------------------------------------------------------
(* The strings given to write_str and the bytes given to read_str.         *)

\* Chars in a string given to write_str.
MaxChars == 2

\* U+0000, the ends of the 1-, 2- and 3-byte ranges with the surrogates
\* left out, and supplementary code points.
CodePoints ==
    {0, 1, 97, 127, 128, 233, 2047, 2048, 8364, 55295, 57344, 65535,
     65536, 128512, 1048576, 1114111}

Strings == UNION {[1 .. n -> CodePoints] : n \in 0 .. MaxChars}

\* Bytes in the short inputs of read_str.
MaxRaw == 3

\* 00, 'a', a continuation byte, lead bytes of 2, 3 and 4 bytes, and the
\* bytes ED, A0, B0 of the surrogate halves.
RawBytes == {0, 97, 128, 194, 224, 240, 237, 160, 176}

\* Short inputs, and inputs with the surrogate halves of U+10000: the pair,
\* the pair before three and before six chars, the high half before six
\* chars, and the low half before the high one.
RawStrings ==
    UNION {[1 .. n -> RawBytes] : n \in 0 .. MaxRaw}
      \cup {<<237, 160, 128, 237, 176, 128>>,
            <<237, 160, 128, 237, 176, 128, 97, 97, 97>>,
            <<237, 160, 128, 237, 176, 128, 97, 97, 97, 97, 97, 97>>,
            <<237, 160, 128, 97, 97, 97, 97, 97, 97>>,
            <<237, 176, 128, 237, 160, 128>>}

InitStr ==
    /\ Prefilled(0)
    /\ status = "running"
    /\ build \in {"debug", "release"}
    /\ last = Call("new", NoItem, 0, NoResult)
    /\ log = {}
    /\ inserted = <<>>
    /\ only_push = TRUE
    /\ npush = 0
    /\ iter = NoIter
    /\ yielded = <<>>
    /\ cursor = 0
    /\ perr = NoResult
    /\ size = 0 /\ loop_index = 0 /\ tags_read = 0 /\ wide_read = 0
    /\ AttrIdle /\ DescIdle /\ TreeIdle
    /\ buf = <<>> /\ decoded = Fail(0, NoResult)
    /\ \/ pc = "str" /\ chars \in Strings /\ bytes = <<>> /\ limit = 0
       \/ pc = "raw" /\ chars = <<>> /\ bytes \in RawStrings /\ limit = Len(bytes)

NextStr ==
    \/ WriteStrCall
    \/ WriteUtf8Item
    \/ NewDecoder
    \/ ReadStrCall

SpecStr == InitStr /\ [][NextStr]_vars

----------------------------------------------------------------------------
(* The inputs of parse for write: class files of version 52 whose pool     *)
(* holds the names "Code", "Deprecated" and "ConstantValue" at the indices *)
(* 1 .. 3, a Class at 4 and an Integer at 5, with at most one more entry,  *)
(* one interface, one field, one method and MaxClassAttrs attributes of    *)
(* the class.  Every count is the count of what follows it and every       *)
(* attribute has the length of its body.                                   *)

\* Attributes of the class in the inputs.
MaxClassAttrs == 2

\* CONSTANT_Utf8_info of a string
Utf8Entry(s) == <<1>> \o U16ToBytes(Len(WriteStr(s))) \o WriteStr(s)

BasePool ==
    Utf8Entry(AttributeName.Code) \o Utf8Entry(AttributeName.Deprecated)
      \o Utf8Entry(AttributeName.ConstantValue) \o <<7, 0, 1>> \o <<3, 0, 0, 0, 123>>

\* The entry after those: none, a Utf8 (of 'x', of U+0000), a Float, a Long.
ExtraEntries ==
    {<<>>, Utf8Entry(<<120>>), Utf8Entry(<<0>>), <<4, 63, 128, 0, 0>>,
     <<5, 0, 0, 0, 0, 0, 0, 127, 255>>}

\* The indices an entry takes.
EntrySlots(e) == IF e = <<>> THEN 0 ELSE IF e[1] \in {5, 6} THEN 2 ELSE 1

ClassAttr(name_index, body) == Attr(name_index, Len(body), body)

MemberAttrTables ==
    {AttrTable(<<>>), AttrTable(<<ClassAttr(3, <<0, 5>>)>>),
     AttrTable(<<ClassAttr(1, <<0, 1, 0, 1, 0, 0, 0, 1, 177, 0, 0>> \o AttrTable(<<>>))>>),
     AttrTable(<<ClassAttr(1, <<0, 1, 0, 1, 0, 0, 0, 1, 177, 0, 0>>
                                 \o AttrTable(<<ClassAttr(2, <<>>)>>))>>)}

MemberTables == {<<0, 0>>} \cup {<<0, 1, 0, 1, 0, 1, 0, 1>> \o t : t \in MemberAttrTables}

ClassAttrTables ==
    {AttrTable(as) : as \in UNION {[1 .. n -> {ClassAttr(2, <<>>)}] : n \in 0 .. MaxClassAttrs}}

ClassInputs ==
    {Header \o U16ToBytes(6 + EntrySlots(e)) \o BasePool \o e
       \o <<0, 33, 0, 4, 0, 0>> \o i \o f \o m \o a :
        e \in ExtraEntries, i \in {<<0, 0>>, <<0, 1, 0, 4>>},
        f \in MemberTables, m \in MemberTables, a \in ClassAttrTables}

InitClass ==
    /\ Prefilled(0)
    /\ status = "running"
    /\ build \in {"debug", "release"}
    /\ last = Call("new", NoItem, 0, NoResult)
    /\ log = {}
    /\ inserted = <<>>
    /\ only_push = TRUE
    /\ npush = 0
    /\ iter = NoIter
    /\ yielded = <<>>
    /\ bytes \in ClassInputs
    /\ cursor = 0
    /\ limit = Len(bytes)
    /\ pc = "header" /\ perr = NoResult
    /\ size = 0 /\ loop_index = 0 /\ tags_read = 0 /\ wide_read = 0
    /\ AttrIdle /\ CodecIdle /\ DescIdle /\ TreeIdle

NextClass ==
    \/ ParseHeader
    \/ ReadPoolCount
    \/ ReadPoolEntry
    \/ PoolDone
    \/ ParseClassInfo
    \/ ReadMemberCount
    \/ ParseMember
    \/ MemberDone
    \/ MembersDone
    \/ ReadAttributeCount
    \/ LimitAttribute
    \/ ParseBody
    \/ LimitCode
    \/ ParseInstruction
    \/ RemoveCodeLimit
    \/ ReadCodeExceptions
    \/ AttributesDone
    \/ RemoveLimit
    \/ ClassDone
    \/ WriteClass

SpecClass == InitClass /\ [][NextClass]_vars

----------------------------------------------------------------------------
(* The inputs of parse for the scenarios: the class files above, and the   *)
(* inputs with an empty pool and nothing but bytes 00 after its count, 14  *)
(* of which are the flags, the two names and the four counts.              *)

EmptyClasses == {Header \o <<0, 1>> \o [k \in 1 .. n |-> 0] : n \in {10, 12, 14}}

InitScenario ==
    /\ Prefilled(0)
    /\ status = "running"
    /\ build \in {"debug", "release"}
    /\ last = Call("new", NoItem, 0, NoResult)
    /\ log = {}
    /\ inserted = <<>>
    /\ only_push = TRUE
    /\ npush = 0
    /\ iter = NoIter
    /\ yielded = <<>>
    /\ bytes \in ClassInputs \cup EmptyClasses
    /\ cursor = 0
    /\ limit = Len(bytes)
    /\ pc = "header" /\ perr = NoResult
    /\ size = 0 /\ loop_index = 0 /\ tags_read = 0 /\ wide_read = 0
    /\ AttrIdle /\ CodecIdle /\ DescIdle /\ TreeIdle

SpecScenario == InitScenario /\ [][NextClass]_vars

----------------------------------------------------------------------------
(* The inputs of from_str: every string of at most MaxDescLen chars over   *)
(* the chars of the grammar, and strings at the limits of 255 dimensions   *)
(* and 255 parameters.                                                     *)

\* Chars of the short descriptors.
MaxDescLen == 4

\* '(' ')' '[' 'L' ';' 'I' 'V': 'I' and 'V' are each a tag of one of the
\* grammars and an unknown tag or a char of a name in the other.
DescChars == {OpenParen, CloseParen, Bracket, RefTag, Semicolon, 73, VoidTag}

ShortDescs == UNION {[1 .. n -> DescChars] : n \in 0 .. MaxDescLen}

\* "I", "LI;", "", "U", "V", ";"
DescTails == {<<73>>, <<RefTag, 73, Semicolon>>, <<>>, <<85>>, <<VoidTag>>, <<Semicolon>>}

LongDescs ==
    {Repeat(Bracket, k) \o t : k \in {MaxDimensions, MaxDimensions + 1}, t \in DescTails}
      \cup {<<OpenParen>> \o Repeat(Bracket, k) \o t \o <<CloseParen>> \o r :
              k \in {MaxDimensions, MaxDimensions + 1}, t \in DescTails, r \in DescTails}
      \cup {<<OpenParen>> \o Repeat(73, n) \o <<CloseParen>> \o r :
              n \in {MaxParams, MaxParams + 1}, r \in DescTails}
      \cup {<<OpenParen, RefTag, 73, Semicolon>> \o p \o <<CloseParen>> \o Repeat(Bracket, 2) \o r :
              p \in DescTails, r \in DescTails}
      \cup {<<OpenParen, RefTag, c, Semicolon, CloseParen>> \o r :
              c \in {OpenParen, CloseParen, VoidTag, Bracket}, r \in DescTails}

InitDesc ==
    /\ Prefilled(0)
    /\ status = "running"
    /\ build = "debug"
    /\ last = Call("new", NoItem, 0, NoResult)
    /\ log = {}
    /\ inserted = <<>>
    /\ only_push = TRUE
    /\ npush = 0
    /\ iter = NoIter
    /\ yielded = <<>>
    /\ bytes = <<>>
    /\ cursor = 0
    /\ limit = 0
    /\ pc = "desc" /\ perr = NoResult
    /\ size = 0 /\ loop_index = 0 /\ tags_read = 0 /\ wide_read = 0
    /\ AttrIdle /\ CodecIdle /\ TreeIdle
    /\ desc \in ShortDescs \cup LongDescs
    /\ parsed = Fail(0, NoResult)
    /\ shown = <<>>

NextDesc ==
    \/ DescFromStr
    \/ DescStep
    \/ DescToString
    \/ DescFromShown

SpecDesc == InitDesc /\ [][NextDesc]_vars

----------------------------------------------------------------------------
(* Properties of the pool.                                                 *)

\* The calls that returned an index: the successful pushes and the insertions.
Returned == log \cup {inserted[j] : j \in 1 .. Len(inserted)}

\* The last call was a push or push_duplicate that had to append.
LastPush == last.op \in {"push", "push_duplicate"}
LastAppends == LastPush /\ (last.op = "push_duplicate" \/ ~last.present_before)

\* C1: in a history of push calls only, two pushes return the same index if
\* and only if their items are equal (floats by bit pattern), and a push of
\* an item already present leaves len() unchanged.  The pushes of the
\* prefix returned k for Integer(k).
C1_PushDedup ==
    (only_push /\ status = "running") =>
        /\ \A p, q \in log : (p[2] = q[2]) <=> ItemEq(p[1], q[1])
        /\ \A p \in log :
            /\ p[2] \in 1 .. prefix => ItemEq(p[1], Integer(p[2]))
            /\ PrefixEntry(p[1]) => p[2] = p[1].v
        /\ (last.op = "push" /\ last.res.kind = "Ok" /\ last.present_before)
               => length = last.len_before

\* C2: an insertion of a Long or Double at index i grows len() by 2, the
\* next insertion gets index i + 2 and get(i + 1) fails with
\* InvalidCPItem(i + 1); any other insertion grows len() by 1.
C2_WideSlots ==
    status = "running" =>
        /\ (LastAppends /\ last.res.kind = "Ok")
               => length = last.len_before + Width(last.item)
        /\ \A j \in 1 .. Len(inserted) :
            /\ j < Len(inserted)
                   => inserted[j + 1][2] = inserted[j][2] + Width(inserted[j][1])
            /\ IsDouble(inserted[j][1])
                   => GetOp(inserted[j][2] + 1) = InvalidCPItem(inserted[j][2] + 1)

\* C3: get(i) returns the stored item when i is in [1, len()-1] and the
\* slot is occupied, and otherwise the error InvalidCPItem(i); it never aborts.
C3_GetTotal ==
    last.op = "get" =>
        last.res = IF /\ last.index \in 1 .. (length - 1)
                      /\ last.index <= NumSlots
                      /\ Slot(last.index).some
                   THEN OkItem(Slot(last.index).item)
                   ELSE InvalidCPItem(last.index)

\* C4: once push or push_duplicate has returned index i for an item, get(i)
\* returns an equal item after every later call.  Of the prefix, the first
\* and the last index stand for the rest.
C4_StableIndex ==
    status = "running" =>
        /\ \A p \in Returned :
            GetOp(p[2]).kind = "Ok" /\ ItemEq(GetOp(p[2]).item, p[1])
        /\ prefix > 0 => /\ GetOp(1) = OkItem(Integer(1))
                         /\ GetOp(prefix) = OkItem(Integer(prefix))

\* C5: on a pool with len() = 0xFFFF every push and push_duplicate fails
\* with CPTooLarge, whatever the item, and leaves the pool as it was.
C5_FullPoolRejects ==
    (LastPush /\ last.len_before = U16Max) =>
        last.res = CPTooLarge /\ length = U16Max /\ status = "running"

\* C5 witness: a push of an item that is in the pool, on a full pool.
C5_Witness ==
    /\ last.op = "push" /\ last.len_before = U16Max /\ last.present_before
    /\ last.res = CPTooLarge

\* C6: an insertion that would make len() exceed 0xFFFF fails with
\* CPTooLarge, so len() stays in [1, 0xFFFF] and every index returned is
\* in [1, 65534].
C6_NoOverflow ==
    /\ length \in 1 .. U16Max
    /\ \A p \in Returned : p[2] \in 1 .. (U16Max - 1)
    /\ (LastAppends /\ last.len_before + Width(last.item) > U16Max)
           => last.res = CPTooLarge

\* C7: push_duplicate on a pool with len() < 0xFFFF returns the len() of
\* before the call and grows len() by the width of the item, also when an
\* equal item is in the pool; the new index and the earlier one resolve
\* to the item.
C7_PushDuplicateAppends ==
    (last.op = "push_duplicate" /\ last.len_before < U16Max) =>
        /\ last.res = OkIndex(last.len_before)
        /\ length = last.len_before + Width(last.item)
        /\ GetOp(last.len_before) = OkItem(last.item)
        /\ last.present_before =>
               \/ PrefixEntry(last.item) /\ GetOp(last.item.v) = OkItem(last.item)
               \/ \E i \in (prefix + 1) .. (last.len_before - 1) :
                      GetOp(i).kind = "Ok" /\ ItemEq(GetOp(i).item, last.item)

\* C8: len() = 1 + the number of slots (occupied and placeholder); a fresh
\* pool has len() = 1, and is_empty() holds iff nothing has been inserted.
C8_LenCountsSlots ==
    status = "running" =>
        /\ length = 1 + NumSlots
        /\ IsEmpty <=> (prefix = 0 /\ inserted = <<>>)

\* What the live iterator has yielded so far.
IsSome(y) == y.kind = "Some"
Yields == SelectSeq(yielded, IsSome)

\* C9: iter() yields exactly the occupied slots, once each, in ascending
\* index order; every pair (i, item) yielded satisfies get(i) = item; after
\* the last occupied slot it yields nothing more.
C9_IterOccupied ==
    (iter.live /\ status = "running") =>
        /\ \A k \in 1 .. Len(yielded) : yielded[k].kind \in {"Some", "None"}
        /\ Len(Yields) = Cardinality({i \in 1 .. iter.pos : Slot(i).some})
        /\ \A k \in 1 .. Len(Yields) :
            /\ Yields[k].index \in 1 .. iter.pos
            /\ Slot(Yields[k].index) = Some(Yields[k].item)
            /\ GetOp(Yields[k].index) = OkItem(Yields[k].item)
            /\ k < Len(Yields) => Yields[k].index < Yields[k + 1].index
        /\ \A k \in 1 .. Len(yielded) :
            yielded[k].kind = "None" =>
                /\ iter.pos = NumSlots
                /\ \A m \in k .. Len(yielded) : yielded[m].kind = "None"

\* C10: read_constant_pool on a pool of on-wire count N reads N - 1 minus
\* the number of Long and Double entries tagged entries, and the pool it
\* returns has len() = N.
C10_PoolCount ==
    pc = "pool_done" =>
        /\ tags_read = size - 1 - wide_read
        /\ PoolLen = size

\* C27: after any calls of push and push_duplicate, a push of an item that
\* is in an occupied slot leaves len() unchanged and returns an index that
\* get resolves to an equal item; a push of an item that is in no occupied
\* slot appends it and returns the len() of before the call.
C27_PushAfterDuplicates ==
    (last.op = "push" /\ last.res.kind = "Ok") =>
        /\ last.present_before =>
              /\ length = last.len_before
              /\ GetOp(last.res.index).kind = "Ok"
              /\ ItemEq(GetOp(last.res.index).item, last.item)
        /\ ~last.present_before =>
              /\ last.res = OkIndex(last.len_before)
              /\ length = last.len_before + Width(last.item)

----------------------------------------------------------------------------
(* Properties of parse.                                                    *)

\* The buffer does not start with the four bytes CA FE BA BE.
BadMagic == Len(bytes) < 4 \/ SubSeq(bytes, 1, 4) # MAGIC

\* C11: for a buffer whose first four bytes are not CA FE BA BE, buffers
\* shorter than four bytes included, parse fails with NotAClass and with no
\* other error.
C11_MagicGate ==
    (BadMagic /\ pc # "header") => (pc = "failed" /\ perr = NotAClass)

\* The bytes the arm of an attribute's name reads whatever length is
\* declared, or -1 for an arm that reads by the declared length
\* (SourceDebugExtension, unknown names) and for Code.
Consumes(name, start) ==
    CASE name \in {AttributeName.ConstantValue, AttributeName.SourceFile,
                   AttributeName.Signature, AttributeName.ModuleMainClass} -> 2
      [] name \in {AttributeName.Deprecated, AttributeName.Synthetic} -> 0
      [] name = AttributeName.Exceptions /\ start + 2 <= Len(bytes) ->
             2 + 2 * U16FromBytes(BytesAt(start, 2))
      [] OTHER -> -1

DataModelName ==
    [AttributeName EXCEPT !.EnclosingMethod = SubSeq(AttributeName.EnclosingMethod, 1, 15)]

\* C25: an attribute whose name is the name of a variant of Attribute is
\* parsed to that variant, and an attribute of any other name to
\* Unknown(name_index, raw_bytes).
C25_AttributeNames ==
    \A k \in 1 .. Len(attrs) :
        IF \E v \in DOMAIN DataModelName : DataModelName[v] = attrs[k].name
        THEN /\ attrs[k].variant \in DOMAIN DataModelName
             /\ DataModelName[attrs[k].variant] = attrs[k].name
        ELSE /\ attrs[k].variant = "Unknown"
             /\ attrs[k].name_index = U16FromBytes(BytesAt(attrs[k].start - 6, 2))
             /\ attrs[k].end = attrs[k].start + attrs[k].length

----------------------------------------------------------------------------
(* Properties of the Decoder.                                              *)

\* `decoder.limit(n)` is called in this step, with n the u32 just read.
LimitCalled ==
    \/ pc = "attrs" /\ cursor' = cursor + 6
    \/ pc = "body" /\ frames # <<>> /\ Top.name = AttributeName.Code /\ cursor' = cursor + 8

\* Its argument, read from the four bytes before the cursor it is called at.
LimitArg == U32FromBytes([k \in 1 .. 4 |-> bytes[cursor' - 4 + k]])

\* limit(n): LimitExceeded when cursor + n is past the limit, and else a
\* Decoder at the same cursor with the limit cursor + n.
LimitStep ==
    LimitCalled =>
        IF LimitArg[1] # 0 \/ cursor' + LimitArg[2] > limit
        THEN pc' = "failed" /\ perr' = LimitExceeded /\ limit' = limit /\ frames' = frames
        ELSE /\ pc' # "failed"
             /\ limit' = cursor' + LimitArg[2]
             /\ frames' = Append(frames, frames'[Len(frames')])
             /\ frames'[Len(frames')].limit = limit

\* remove_limit: Ok exactly when the cursor is at the limit, and else
\* LimitExceeded; the Decoder it was limited from goes on at the cursor.
RemoveStep ==
    pc \in {"remove", "code_remove"} =>
        /\ cursor' = cursor
        /\ IF cursor = limit
           THEN pc' # "failed" /\ limit' = Top.limit /\ Len(frames') = Len(frames) - 1
           ELSE pc' = "failed" /\ perr' = LimitExceeded

\* C22: limit(n) fails with LimitExceeded when cursor + n is past the
\* limit and else gives a Decoder on the same cursor limited to cursor + n;
\* remove_limit succeeds exactly when the cursor is at that limit; in every
\* state cursor <= limit <= the length of the buffer.
C22_Limits ==
    /\ [](cursor <= limit /\ limit <= Len(bytes))
    /\ [][LimitStep /\ RemoveStep]_vars

\* The Decoder of a code array was removed at its limit and the Decoder of
\* the attribute goes on, before its own limit.
C22_Witness ==
    /\ pc = "code_exceptions"
    /\ Len(frames) = 1 /\ Top.kind = "attr"
    /\ limit = Top.start + Top.length
    /\ cursor < limit /\ limit < Len(bytes)

\* C30: a read or skip that fails with LimitExceeded leaves the cursor where
\* it was, one that succeeds moves it by the count asked for, and neither
\* changes the limit; it succeeds when the cursor plus the count is within
\* the limit and fails with LimitExceeded when not.
C30_ReadSkip ==
    [][(pc = "decoder" /\ decoded'.op \in {"read_bytes", "skip"}) =>
          /\ limit' = limit
          /\ decoded'.res.ok <=> cursor + decoded'.count <= limit
          /\ decoded'.res.ok => cursor' = cursor + decoded'.count
          /\ ~decoded'.res.ok => cursor' = cursor /\ decoded'.res.err = LimitExceeded]_vars

\* A read of four bytes has failed on a limited decoder, after other reads,
\* with the bytes in the input and past the limit.
C30_Witness ==
    /\ pc = "decoder"
    /\ decoded = DecoderCall("read_bytes", 4, Fail(cursor, LimitExceeded))
    /\ frames # <<>>
    /\ cursor > 0 /\ cursor + 4 > limit /\ cursor + 4 <= Len(bytes)

----------------------------------------------------------------------------
(* Properties of parse_code and parse_instruction.                         *)

\* A code array is being parsed.
InCode == IF frames = <<>> THEN FALSE ELSE Top.kind = "code"

\* The byte of the code array at the offset at.
CodeByte(at) == bytes[Top.start + at + 1]

\* parse_instruction has failed on the instruction at Top.at after it read
\* the op code and the byte after it.
FailedAt(op_code) ==
    /\ InCode /\ pc = "failed"
    /\ Top.at + 2 <= Top.length
    /\ CodeByte(Top.at) = op_code

\* The op codes the wide prefix may stand before, iinc apart.
WideLocals == (21 .. 25) \cup (54 .. 58) \cup {169}

\* C23: after the prefix 0xC4, iload .. aload, istore .. astore and ret give
\* the node of the narrow form with the u16 index, iinc gives IInc with the
\* u16 index and the i16 value, and any other op code fails with
\* InvalidInstruction { op_code: 0xC4, at }.
C23_Wide ==
    /\ InCode =>
          \A k \in 1 .. Len(Top.instructions) :
              LET e == Top.instructions[k]
                  index == U16FromBytes(<<CodeByte(e.at + 2), CodeByte(e.at + 3)>>)
              IN CodeByte(e.at) = 196 =>
                    \/ /\ CodeByte(e.at + 1) \in WideLocals
                       /\ e.insn = Insn(Narrow[CodeByte(e.at + 1)], <<index>>)
                    \/ /\ CodeByte(e.at + 1) = 132
                       /\ e.insn = Insn("IInc", <<index, I16FromBytes(<<CodeByte(e.at + 4),
                                                                        CodeByte(e.at + 5)>>)>>)
    /\ FailedAt(196) =>
          IF CodeByte(Top.at + 1) \in WideLocals \cup {132}
          THEN perr = LimitExceeded
          ELSE perr = InvalidInstruction(196, Top.at)

\* A switch has been parsed at the offset 1, where two bytes are skipped.
ParsedAt(at, op_code) ==
    /\ InCode
    /\ \E k \in 1 .. Len(Top.instructions) :
          Top.instructions[k].at = at /\ CodeByte(at) = op_code

\* C24: tableswitch and lookupswitch at the offset `at` skip 3 - at mod 4
\* bytes before the default: the default is the i32 at the next offset
\* that is a multiple of 4, and the instruction ends after its operands.
C24_Padding ==
    InCode =>
       \A k \in 1 .. Len(Top.instructions) :
           LET e == Top.instructions[k]
               aligned == e.at + 1 + (3 - (e.at % 4))
               next == IF k < Len(Top.instructions) THEN Top.instructions[k + 1].at
                       ELSE Top.at
           IN CodeByte(e.at) \in {170, 171} =>
                 /\ aligned % 4 = 0
                 /\ e.insn.args[1] = I32FromBytes(BytesAt(Top.start + aligned, 4))
                 /\ CodeByte(e.at) = 170 => next = aligned + 12 + 4 * Len(e.insn.args[4])
                 /\ CodeByte(e.at) = 171 =>
                       next = aligned + 8 + 8 * U16FromBytes(BytesAt(Top.start + aligned + 6, 2))

C24_Witness ==
    /\ ParsedAt(1, 170)
    /\ Top.instructions[2].insn.variant = "TableSwitch"
    /\ Len(Top.instructions[2].insn.args[4]) = 2
    /\ Top.at = 1 + 1 + 2 + 12 + 8

\* The offset of the default of a switch at the offset at, and its low
\* and high or its count.
Aligned(at) == at + 1 + (3 - (at % 4))
LowAt(at) == I32FromBytes(BytesAt(Top.start + Aligned(at) + 4, 4))
HighAt(at) == I32FromBytes(BytesAt(Top.start + Aligned(at) + 8, 4))
PairsAt(at) == U32FromBytes(BytesAt(Top.start + Aligned(at) + 4, 4))

\* The offsets that fit between the high of a tableswitch at the offset at
\* and the end of the code array.
FitAfter(at) == (Top.length - (Aligned(at) + 12)) \div 4

\* The key after the k-th of the instruction container, or the offset the
\* loop of parse_code is at.
NextKey(k) ==
    IF k < Len(Top.instructions) THEN Top.instructions[k + 1].at ELSE Top.at

\* C29: a tableswitch with low <= high is parsed with high - low + 1
\* offsets, for high = 2^31 - 1 too; it fails only when so many offsets do
\* not fit in the code array, with LimitExceeded, and never by an overflow.
C29_TableSwitch ==
    InCode =>
       /\ \A k \in 1 .. Len(Top.instructions) :
             LET e == Top.instructions[k] IN
             (CodeByte(e.at) = 170 /\ LowAt(e.at) <= HighAt(e.at)) =>
                /\ ~SubOverflows(HighAt(e.at), LowAt(e.at))
                /\ Len(e.insn.args[4]) = HighAt(e.at) - LowAt(e.at) + 1
                /\ e.insn.args[4] = Offsets(Top.start + Aligned(e.at) + 12, Len(e.insn.args[4]))
       /\ (/\ pc = "failed" /\ Top.at < Top.length /\ CodeByte(Top.at) = 170
           /\ Aligned(Top.at) + 12 <= Top.length
           /\ LowAt(Top.at) <= HighAt(Top.at)) =>
                /\ perr = LimitExceeded
                /\ IF SubOverflows(HighAt(Top.at), LowAt(Top.at)) THEN TRUE
                   ELSE HighAt(Top.at) - LowAt(Top.at) >= FitAfter(Top.at)

\* The size of the instruction of the code array at the offset at: the op
\* code, the padding and the operands.  A tableswitch with low > high has
\* none, nor has an op code that is no instruction.
EncodedSize(at) ==
    CASE CodeByte(at) = 170 ->
             IF LowAt(at) > HighAt(at) \/ SubOverflows(HighAt(at), LowAt(at))
                  \/ HighAt(at) - LowAt(at) > Len(bytes)
             THEN 0
             ELSE Aligned(at) - at + 12 + 4 * (HighAt(at) - LowAt(at) + 1)
      [] CodeByte(at) = 171 ->
             IF PairsAt(at)[1] > 0 THEN 0
             ELSE Aligned(at) - at + 8 + 8 * PairsAt(at)[2]
      [] CodeByte(at) = 196 ->
             IF CodeByte(at + 1) = 132 THEN 6
             ELSE IF CodeByte(at + 1) \in WideLocals THEN 4 ELSE 0
      [] CodeByte(at) \in 203 .. 253 -> 0
      [] OTHER -> 1 + Sum(OperandReads(CodeByte(at)))

\* The instruction at the offset at, an instruction with a size, would end
\* after the end of the code array.
Crosses(at) ==
    CASE CodeByte(at) = 170 ->
             \/ Aligned(at) + 12 > Top.length
             \/ /\ LowAt(at) <= HighAt(at)
                /\ IF SubOverflows(HighAt(at), LowAt(at)) THEN TRUE
                   ELSE HighAt(at) - LowAt(at) >= FitAfter(at)
      [] CodeByte(at) = 171 ->
             \/ Aligned(at) + 8 > Top.length
             \/ PairsAt(at)[1] > 0
             \/ Aligned(at) + 8 + 8 * PairsAt(at)[2] > Top.length
      [] CodeByte(at) = 196 ->
             \/ at + 2 > Top.length
             \/ EncodedSize(at) > 0 /\ at + EncodedSize(at) > Top.length
      [] CodeByte(at) \in 203 .. 253 -> FALSE
      [] OTHER -> at + EncodedSize(at) > Top.length

\* C28: the keys of the instruction container are the offsets the
\* instructions start at: 0, and after each the key plus the size of its
\* instruction, the last instruction ending at code_length; parse_code fails
\* with LimitExceeded on an instruction that would end after code_length.
C28_Keys ==
    InCode =>
       /\ pc \in {"code", "code_remove"} =>
             /\ cursor = Top.start + Top.at
             /\ NextKey(0) = 0
             /\ \A k \in 1 .. Len(Top.instructions) :
                   /\ NextKey(k) > Top.instructions[k].at
                   /\ EncodedSize(Top.instructions[k].at) > 0 =>
                         NextKey(k) = Top.instructions[k].at
                                         + EncodedSize(Top.instructions[k].at)
       /\ pc = "code_remove" => Top.at = Top.length
       /\ (pc = "failed" /\ Top.at < Top.length /\ Crosses(Top.at)) => perr = LimitExceeded

\* The input of the scenario S1 with n bytes 00 after the count of the pool.
S1Input(n) == Header \o <<0, 1>> \o [k \in 1 .. n |-> 0]

\* parse has returned Ok((constant_pool, class)).
ParseOk == pc \in {"parsed", "class_written"}

\* C26: parse succeeds on CA FE BA BE 00 00 00 34 00 01 followed by ten
\* bytes 00, with pool.len() = 1 and the name of the class 0.
C26_Scenario ==
    bytes = S1Input(10) =>
       /\ pc # "failed"
       /\ ParseOk => PoolLen = 1 /\ class.name = 0

\* C26, amended: parse succeeds, with pool.len() = 1 and the name of the
\* class 0, when fourteen bytes 00 follow the count of the pool (the flags,
\* the two names and the four counts); with ten, the count of the methods
\* is past the end and parse fails with LimitExceeded.
C26_ScenarioAmended ==
    /\ bytes = S1Input(14) =>
          /\ pc # "failed"
          /\ ParseOk => PoolLen = 1 /\ class.name = 0 /\ cursor = Len(bytes)
    /\ bytes = S1Input(10) =>
          /\ ~ParseOk
          /\ pc = "failed" => perr = LimitExceeded /\ cursor = Len(bytes)

C26_Witness ==
    /\ bytes = S1Input(14)
    /\ pc = "parsed"
    /\ PoolLen = 1 /\ class.name = 0

----------------------------------------------------------------------------
(* Properties of write_str and read_str.                                   *)

\* C13: decoding with read_str the bytes write_str produced for a string of
\* scalar values, with the number of those bytes as the length, succeeds
\* and returns the string.
C13_StrRoundTrip ==
    (pc = "read" /\ decoded.from = "loaded") =>
        (decoded.res.ok /\ decoded.res.val = chars)

\* C14: the u16 length prefix of a UTF8 item the writer emits is the number
\* of bytes write_str emits after it.
C14_LengthPrefix ==
    pc = "item_written" =>
        U16FromBytes(SubSeq(buf, 2, 3)) = Len(buf) - 3

\* The surrogate halves of a supplementary code point.
HighHalf(cp) == 55296 + ((cp - 65536) \div 1024)
LowHalf(cp) == 56320 + ((cp - 65536) % 1024)

\* The three bytes of a code point of the 3-byte range.
ThreeBytes(u) == <<224 + (u \div 4096), 128 + ((u \div 64) % 64), 128 + (u % 64)>>

\* C15: write_str encodes U+0000 as C0 80 and a supplementary code point as
\* the six bytes of its two surrogate halves: ED A0 .. ED B8 .. for U+1F600.
C15_WriteStrBytes ==
    (pc = "written" /\ Len(chars) = 1) =>
        /\ chars[1] = 0 => buf = <<192, 128>>
        /\ chars[1] >= 65536 =>
              buf = ThreeBytes(HighHalf(chars[1])) \o ThreeBytes(LowHalf(chars[1]))
        /\ chars[1] = 128512 =>
              /\ Len(buf) = 6
              /\ SubSeq(buf, 1, 2) = <<237, 160>>
              /\ SubSeq(buf, 4, 5) = <<237, 184>>

\* C16: when read_str(byte_len) succeeds, the cursor has advanced by
\* exactly byte_len bytes.
C16_CursorAdvance ==
    (pc = "read" /\ decoded.res.ok) =>
        decoded.res.cursor = decoded.start + decoded.len

\* The first char of the declared bytes is malformed: a raw 00, a lead byte
\* in 80..BF, a lead byte of F0 or more, a surrogate half that is alone (a
\* low half, or a high half that no low half follows in the declared
\* bytes), or a sequence of 2 or 3 bytes cut by the declared length.
MalformedFirst ==
    LET b == bytes
        len == decoded.len
    IN /\ len >= 1
       /\ \/ b[1] = 0
          \/ b[1] \in 128 .. 191
          \/ b[1] >= 240
          \/ b[1] \in 192 .. 223 /\ len < 2
          \/ b[1] \in 224 .. 239 /\ len < 3
          \/ /\ len >= 3 /\ b[1] = 237 /\ b[2] \in 176 .. 191
          \/ /\ len >= 3 /\ b[1] = 237 /\ b[2] \in 160 .. 175
             /\ ~(len >= 6 /\ b[4] = 237 /\ b[5] \in 176 .. 191)

\* C17: read_str fails with InvalidUTF8, and in no other way, on malformed
\* input.
C17_Malformed ==
    (pc = "read" /\ decoded.from = "raw" /\ MalformedFirst) =>
        (~decoded.res.ok /\ decoded.res.err = InvalidUTF8)

----------------------------------------------------------------------------
(* Properties of write.                                                    *)

\* C18: for every valid class file b, parse succeeds and write gives b
\* back byte for byte.
C18_WriteParse ==
    /\ pc # "failed"
    /\ pc = "class_written" => buf = bytes

----------------------------------------------------------------------------
(* Properties of the descriptors.                                          *)

\* C19: formatting the value parsed from an accepted string gives the
\* string back, and parsing the formatted string gives the value back.
C19_DescriptorRoundTrip ==
    /\ pc \in {"desc_shown", "desc_again"} => shown = desc
    /\ pc = "desc_again" => parsed.again = parsed.first

\* A method descriptor with a parameter and a return type of a reference
\* array has gone through parse, format and parse.
C19_Witness ==
    /\ pc = "desc_again"
    /\ parsed.kind = "method"
    /\ parsed.first.val.params # <<>>
    /\ parsed.first.val.return_type.some
    /\ parsed.first.val.return_type.v.dimensions > 0
    /\ parsed.first.val.return_type.v.base_type.tag = "Reference"

\* The grammar of a field descriptor: k <= 255 times '[', then a primitive
\* tag, or 'L', a non-empty name without ';', and ';'.
WellFormedType(s) ==
    \E k \in 0 .. MaxDimensions :
        /\ k < Len(s)
        /\ \A j \in 1 .. k : s[j] = Bracket
        /\ \/ Len(s) = k + 1 /\ IsPrimitive(s[k + 1])
           \/ /\ s[k + 1] = RefTag
              /\ Len(s) >= k + 3
              /\ s[Len(s)] = Semicolon
              /\ \A j \in k + 2 .. Len(s) - 1 : s[j] # Semicolon

\* TypeDescriptor::from_str has returned.
TypeParsed == pc \in {"desc_parsed", "desc_failed"} /\ parsed.kind = "type"

\* "L;"
EmptyName == <<RefTag, Semicolon>>

\* C20: TypeDescriptor::from_str accepts exactly the well-formed strings
\* and fails on every other with InvalidDescriptor{desc, at}, desc the
\* input and at the offset of one of its chars; "L;" fails with at = 1.
C20_TypeFromStr ==
    TypeParsed =>
        /\ parsed.first.ok <=> WellFormedType(desc)
        /\ ~parsed.first.ok =>
              /\ parsed.first.desc = desc
              /\ parsed.first.at \in 0 .. Len(desc) - 1
        /\ desc = EmptyName => ~parsed.first.ok /\ parsed.first.at = 1

\* The strings on which the input ends while the dimensions are read.
OnlyBrackets(s) == Len(s) <= MaxDimensions /\ \A j \in 1 .. Len(s) : s[j] = Bracket

\* C20, amended: at is an offset of the input or its length, and is the
\* length exactly when the input is at most 255 times '[' and nothing more.
C20_TypeFromStrAmended ==
    TypeParsed =>
        /\ parsed.first.ok <=> WellFormedType(desc)
        /\ ~parsed.first.ok =>
              /\ parsed.first.desc = desc
              /\ parsed.first.at \in 0 .. Len(desc)
              /\ parsed.first.at = Len(desc) <=> OnlyBrackets(desc)
        /\ desc = EmptyName => ~parsed.first.ok /\ parsed.first.at = 1

\* from_str has failed on "L;".
C20_Witness == TypeParsed /\ desc = EmptyName /\ ~parsed.first.ok

\* A TypeDescriptor of the grammar: at most 255 dimensions of a primitive
\* or of a reference with a non-empty name without ';'.
ValidType(d) ==
    /\ d.dimensions \in 0 .. MaxDimensions
    /\ \/ d.base_type.tag \in DOMAIN PrimitiveTags /\ d.base_type.name = <<>>
       \/ /\ d.base_type.tag = "Reference"
          /\ d.base_type.name # <<>>
          /\ \A j \in 1 .. Len(d.base_type.name) : d.base_type.name[j] # Semicolon

\* A MethodDescriptor of the grammar: at most 255 such params, and such a
\* return type or none.
ValidMethod(d) ==
    /\ Len(d.params) <= MaxParams
    /\ \A j \in 1 .. Len(d.params) : ValidType(d.params[j])
    /\ d.return_type.some => ValidType(d.return_type.v)

\* MethodDescriptor::from_str has returned.
MethodParsed == pc \in {"desc_parsed", "desc_failed"} /\ parsed.kind = "method"

\* The chars of s that are ch.
Occurrences(s, ch) == Cardinality({j \in 1 .. Len(s) : s[j] = ch})

\* What from_str accepts is '(', the params, ')', and the return type or
\* 'V', and nothing more; what it does not accept fails with
\* InvalidDescriptor of the input.
MethodGrammar ==
    MethodParsed =>
        /\ parsed.first.ok =>
              /\ desc[1] = OpenParen
              /\ ValidMethod(parsed.first.val)
              /\ desc = MethodToString(parsed.first.val)
        /\ ~parsed.first.ok => parsed.first.desc = desc /\ parsed.first.at \in 0 .. Len(desc)

\* C21: MethodDescriptor::from_str accepts only '(' + at most 255 parameter
\* types + one ')' + one return type (or 'V', alone, for None) with nothing
\* after it, and a string with a second ')' or '(' fails.
C21_MethodFromStr ==
    /\ MethodGrammar
    /\ (MethodParsed /\ parsed.first.ok) =>
          Occurrences(desc, OpenParen) = 1 /\ Occurrences(desc, CloseParen) = 1

\* The chars ch in the names of the references of a MethodDescriptor.
InNames(d, ch) ==
    Cardinality({jk \in (1 .. Len(d.params)) \X (1 .. Len(desc)) :
                    /\ jk[2] <= Len(d.params[jk[1]].base_type.name)
                    /\ d.params[jk[1]].base_type.name[jk[2]] = ch})
      + Occurrences(d.return_type.v.base_type.name, ch)

\* C21, amended: a second ')' or '(' fails unless it is a char of the name
\* of a reference.
C21_MethodFromStrAmended ==
    /\ MethodGrammar
    /\ (MethodParsed /\ parsed.first.ok) =>
          /\ Occurrences(desc, OpenParen) = 1 + InNames(parsed.first.val, OpenParen)
          /\ Occurrences(desc, CloseParen) = 1 + InNames(parsed.first.val, CloseParen)

\* from_str has accepted a descriptor with a parameter and 'V' for the
\* return type.
C21_Witness ==
    /\ MethodParsed /\ parsed.first.ok
    /\ parsed.first.val.params # <<>>
    /\ ~parsed.first.val.return_type.some

====
